---- MODULE Spec2Model ----
(***************************************************************************)
(* The per-body type-checking environment of hir-analysis (TyCheckEnv in   *)
(* crates/hir-analysis/src/ty/ty_check/env.rs) as a state machine.         *)
(*                                                                         *)
(* The program state is the fields of TyCheckEnv.  Every method becomes an *)
(* operator that computes the new value of the field it assigns, and an    *)
(* action that applies it.  A panic (unwrap on None, panic!) moves status  *)
(* to "aborted"; a constructor that returns Err(()) leaves status "err";   *)
(* finish consumes the environment and leaves status "finished".           *)
(* The type traversal of ty/visitor.rs is modelled next to it: a visitor   *)
(* is the set of leaf hooks it overrides and the calls it has recorded.    *)
(* History variables (last_op, last_args, popped, marks, pending_origin,   *)
(* hist) record what was called; no operation of the program reads them.   *)
(***************************************************************************)
EXTENDS Integers, Sequences, FiniteSets, TLC

VARIABLES
    func,            \* the Func the environment was constructed from
    status,          \* "ok" | "err" (constructor returned Err) | "aborted" (panic) | "finished"
    var_env,         \* TyCheckEnv::var_env : Vec<BlockEnv>
    pending_vars,    \* TyCheckEnv::pending_vars : FxHashMap<IdentId, LocalBinding>
    pat_ty,          \* TyCheckEnv::pat_ty : FxHashMap<PatId, TyId>
    expr_ty,         \* TyCheckEnv::expr_ty : FxHashMap<ExprId, ExprProp>
    callables,       \* TyCheckEnv::callables : FxHashMap<ExprId, Callable>
    loop_stack,      \* TyCheckEnv::loop_stack : Vec<StmtId>
    last_op,         \* history: name of the last method called
    last_args,       \* history: the arguments of that call
    popped,          \* history: the names bound in the scope the last leave_scope popped
    marks,           \* history: one snapshot per enter_scope not yet left
    pending_origin,  \* history: where each staged binding was registered
    hist,            \* history: arguments of the calls made on the result tables
    typed_body,      \* the TypedBody finish returns, None before finish
    visited,         \* the TyVisitable a visitor is run on
    trace,           \* the state of that visitor: the hook calls it has recorded
    attributes,      \* analyzer: the Result<ExpressionAttributes, SemanticError> of the last call
    parser           \* parser2: the Parser an assignment statement is parsed by

vars == <<func, status, var_env, pending_vars, pat_ty, expr_ty, callables,
          loop_stack, last_op, last_args, popped, marks, pending_origin, hist,
          typed_body, visited, trace, attributes, parser>>

----------------------------------------------------------------------------
(* Bounds of the model *)

\* enter_scope is not called once the scope stack holds MaxDepth scopes
MaxDepth == 3

\* enter_loop is not called once the loop stack holds MaxLoops loops
MaxLoops == 3

\* the longest run of tokens after the pattern of an assignment statement
MaxTokens == 3

----------------------------------------------------------------------------
(* The body store: identifiers and what the hir database says about them *)

Names == {"a", "b"}

\* e0 is the root block of the body, e1 a nested block, e2 an expression
\* that is not a block (an `if`, a match-arm body without braces, ...)
ExprIds == {"e0", "e1", "e2"}

expr_data(e) == IF e \in {"e0", "e1"} THEN "Block" ELSE "Other"

\* the patterns of the body are path patterns; the last segment of the path
\* of each
pat_data(p) == IF p \in {"p1", "p2"} THEN "a" ELSE "b"

\* Option<T> and the values of an FxHashMap lookup
None == <<"None">>
Some(x) == <<"Some", x>>

\* a FxHashMap is a function on the set of its keys
EmptyMap == [k \in {} |-> None]

MapInsert(m, k, v) == [x \in (DOMAIN m) \cup {k} |-> IF x = k THEN v ELSE m[x]]

MapGet(m, k) == IF k \in DOMAIN m THEN Some(m[k]) ELSE None

Last(s) == s[Len(s)]

Front(s) == SubSeq(s, 1, Len(s) - 1)

----------------------------------------------------------------------------
(* Types, as far as construction needs them *)

TyInvalid == <<"Invalid", "Other">>

TyBase(p) == <<"TyBase", p>>

\* lower_hir_ty: the annotation `Option` names a type constructor of kind
\* * -> *, the other annotations name proper types
lower_hir_ty(hir_ty) == TyBase(hir_ty)

is_star_kind(ty) == ty # TyBase("Option")

----------------------------------------------------------------------------
(* The recursive type representation (TyData, ConstTyData), as finish and  *)
(* the visitor match on it.  A type is a tuple whose first element names   *)
(* the shape; TyBase and TyInvalid above are two of the shapes.            *)

TyVarSort_General == <<"General">>

TyVarSort_Integral == <<"Integral">>

\* a variable that unifies only with string types of at least that length
TyVarSort_String(len) == <<"String", len>>

\* struct TyVar, as far as it is read: its sort and its key in the table
TyVar(sort, key) == [sort |-> sort, key |-> key]

TyData_TyVar(var) == <<"TyVar", var>>

TyData_TyParam(param) == <<"TyParam", param>>

TyApp(abs, arg) == <<"TyApp", abs, arg>>

TyData_ConstTy(const_ty) == <<"ConstTy", const_ty>>

TyNever == <<"Never">>

ConstTyData_TyVar(var, ty) == <<"TyVar", var, ty>>

ConstTyData_TyParam(param, ty) == <<"TyParam", param, ty>>

ConstTyData_Evaluated(val, ty) == <<"Evaluated", val, ty>>

ConstTyData_UnEvaluated(body) == <<"UnEvaluated", body>>

\* the type a const-type carries; an unevaluated const-type has no type yet
ConstTyId_ty(const_ty) ==
    IF const_ty[1] = "UnEvaluated" THEN TyInvalid ELSE const_ty[3]

\* the type of the length parameter of the string type
String_const_ty == TyBase("u256")

----------------------------------------------------------------------------
(* Substitution and the fold finish runs over every recorded type.  A      *)
(* unification table is a map from the keys of its bound variables to the  *)
(* types they are bound to; a variable whose key is not bound is           *)
(* unresolved.                                                             *)

\* UnificationTable::fold_ty: the type with every bound variable replaced,
\* at any depth, by what it is bound to
RECURSIVE UnificationTable_fold_ty(_, _)
UnificationTable_fold_ty(table, ty) ==
    CASE ty[1] = "TyVar" ->
            IF MapGet(table, ty[2].key) = None THEN ty
            ELSE UnificationTable_fold_ty(table, table[ty[2].key])
      [] ty[1] = "TyApp" ->
            TyApp(UnificationTable_fold_ty(table, ty[2]),
                  UnificationTable_fold_ty(table, ty[3]))
      [] ty[1] = "ConstTy" ->
            LET cty == ty[2]
            IN  CASE cty[1] = "TyVar" ->
                        IF MapGet(table, cty[2].key) = None
                        THEN TyData_ConstTy(ConstTyData_TyVar(cty[2],
                                 UnificationTable_fold_ty(table, cty[3])))
                        ELSE UnificationTable_fold_ty(table, table[cty[2].key])
                  [] cty[1] = "UnEvaluated" -> ty
                  [] OTHER ->
                        TyData_ConstTy(<<cty[1], cty[2],
                                         UnificationTable_fold_ty(table, cty[3])>>)
      [] OTHER -> ty

RECURSIVE EnvFinisher_fold_ty(_, _)

\* TyId::super_fold_with: the default of the fold, which folds the parts of
\* an application and the carried type of a const-type with the folder and
\* returns every other shape as it is
super_fold_with(table, ty) ==
    CASE ty[1] = "TyApp" ->
            TyApp(EnvFinisher_fold_ty(table, ty[2]), EnvFinisher_fold_ty(table, ty[3]))
      [] ty[1] = "ConstTy" ->
            LET cty == ty[2]
            IN  IF cty[1] = "UnEvaluated" THEN ty
                ELSE TyData_ConstTy(<<cty[1], cty[2], EnvFinisher_fold_ty(table, cty[3])>>)
      [] OTHER -> ty

\* the string type of the given length: String applied to the literal
\* length as an evaluated const-type
String_of_len(len) ==
    TyApp(TyBase("String"),
          TyData_ConstTy(ConstTyData_Evaluated(len, String_const_ty)))

\* a fold that looks for a string-length variable only at the top of the
\* type it is given
EnvFinisher_fold_ty_shallow(table, ty) ==
    LET folded == UnificationTable_fold_ty(table, ty)
    IN  IF folded[1] = "TyVar" /\ folded[2].sort[1] = "String"
        THEN String_of_len(folded[2].sort[2])
        ELSE folded

\* a fold that also replaces the unresolved variables of the other sorts
EnvFinisher_fold_ty_default_all(table, ty) ==
    LET folded == UnificationTable_fold_ty(table, ty)
    IN  IF folded[1] # "TyVar" THEN super_fold_with(table, folded)
        ELSE IF folded[2].sort[1] = "String" THEN String_of_len(folded[2].sort[2])
        ELSE TyInvalid

\* EnvFinisher::fold_ty
EnvFinisher_fold_ty(table, ty) ==
    LET folded == UnificationTable_fold_ty(table, ty)
    IN  IF folded[1] # "TyVar" THEN super_fold_with(table, folded)
        ELSE IF folded[2].sort[1] = "String" THEN String_of_len(folded[2].sort[2])
        ELSE super_fold_with(table, folded)

\* ExprProp::fold_with folds the type of the record
ExprProp_fold_with(table, prop) ==
    [prop EXCEPT !.ty = EnvFinisher_fold_ty(table, prop.ty)]

\* Callable::fold_with folds the generic arguments of the callable
Callable_fold_with(table, callable) ==
    [callable EXCEPT !.generic_args =
        [i \in DOMAIN @ |-> EnvFinisher_fold_ty(table, @[i])]]

----------------------------------------------------------------------------
(* The type traversal: TyVisitor, the walk functions and TyVisitable.  A   *)
(* visitor V is the set of the leaf hooks it overrides; an overridden hook *)
(* appends its call to the visitor's record tr, a hook left at its default  *)
(* does what the trait's default body does.  Every operator returns the    *)
(* record after the call.                                                  *)

LeafHooks ==
    {"visit_var", "visit_param", "visit_const_param", "visit_invalid",
     "visit_prim", "visit_adt", "visit_func"}

\* the variant of TyBase a base type is of
AdtNames == {"Option"}

FuncNames == {"foo"}

TyBase_variant(ty_base) ==
    IF ty_base \in AdtNames THEN "Adt"
    ELSE IF ty_base \in FuncNames THEN "Func"
    ELSE "Prim"

visit_var(V, tr, var) ==
    IF "visit_var" \in V THEN Append(tr, <<"visit_var", var>>) ELSE tr

visit_param(V, tr, ty_param) ==
    IF "visit_param" \in V THEN Append(tr, <<"visit_param", ty_param>>) ELSE tr

visit_const_param(V, tr, ty_param, const_ty_ty) ==
    IF "visit_const_param" \in V
    THEN Append(tr, <<"visit_const_param", <<ty_param, const_ty_ty>>>>)
    ELSE tr

visit_invalid(V, tr, cause) ==
    IF "visit_invalid" \in V THEN Append(tr, <<"visit_invalid", cause>>) ELSE tr

visit_prim(V, tr, prim) ==
    IF "visit_prim" \in V THEN Append(tr, <<"visit_prim", prim>>) ELSE tr

visit_adt(V, tr, adt) ==
    IF "visit_adt" \in V THEN Append(tr, <<"visit_adt", adt>>) ELSE tr

visit_func(V, tr, f) ==
    IF "visit_func" \in V THEN Append(tr, <<"visit_func", f>>) ELSE tr

RECURSIVE visit_ty(_, _, _)

\* a visit_app that visits the argument first
visit_app_arg_first(V, tr, abs, arg) == visit_ty(V, visit_ty(V, tr, arg), abs)

visit_app(V, tr, abs, arg) == visit_ty(V, visit_ty(V, tr, abs), arg)

walk_ty_base(V, tr, ty_con) ==
    CASE TyBase_variant(ty_con) = "Prim" -> visit_prim(V, tr, ty_con)
      [] TyBase_variant(ty_con) = "Adt" -> visit_adt(V, tr, ty_con)
      [] TyBase_variant(ty_con) = "Func" -> visit_func(V, tr, ty_con)

visit_ty_base(V, tr, ty_base) == walk_ty_base(V, tr, ty_base)

\* a walk_const_ty that does not visit the type the const-type carries
walk_const_ty_no_carrier(V, tr, const_ty) ==
    CASE const_ty[1] = "TyVar" -> visit_var(V, tr, const_ty[2])
      [] const_ty[1] = "TyParam" -> visit_const_param(V, tr, const_ty[2], const_ty[3])
      [] OTHER -> tr

walk_const_ty(V, tr, const_ty) ==
    LET carried == visit_ty(V, tr, ConstTyId_ty(const_ty))
    IN  CASE const_ty[1] = "TyVar" -> visit_var(V, carried, const_ty[2])
          [] const_ty[1] = "TyParam" ->
                visit_const_param(V, carried, const_ty[2], const_ty[3])
          [] OTHER -> carried

visit_const_ty(V, tr, const_ty) == walk_const_ty(V, tr, const_ty)

walk_ty(V, tr, ty) ==
    CASE ty[1] = "TyVar" -> visit_var(V, tr, ty[2])
      [] ty[1] = "TyParam" -> visit_param(V, tr, ty[2])
      [] ty[1] = "TyApp" -> visit_app(V, tr, ty[2], ty[3])
      [] ty[1] = "TyBase" -> visit_ty_base(V, tr, ty[2])
      [] ty[1] = "ConstTy" -> visit_const_ty(V, tr, ty[2])
      [] ty[1] = "Never" -> tr
      [] ty[1] = "Invalid" -> visit_invalid(V, tr, ty[2])

visit_ty(V, tr, ty) == walk_ty(V, tr, ty)

\* the values that implement TyVisitable: a type, a vector or a slice of
\* such values, a BTreeSet of types
Visitable_TyId(ty) == <<"TyId", ty>>

Visitable_Vec(elems) == <<"Vec", elems>>

Visitable_Slice(elems) == <<"Slice", elems>>

Visitable_BTreeSet(elems) == <<"BTreeSet", elems>>

\* the interned types in the order of their ids, which is the order Ord
\* puts them in
Interned ==
    << TyBase("Int"), TyData_TyVar(TyVar(TyVarSort_General, 2)), TyData_TyParam("T"),
       TyApp(TyBase("Option"), TyData_TyParam("T")) >>

TyId_ord(ty) == CHOOSE i \in 1..Len(Interned) : Interned[i] = ty

\* BTreeSet::iter yields the elements in ascending order
RECURSIVE BTreeSet_iter(_)
BTreeSet_iter(set) ==
    IF set = {} THEN <<>>
    ELSE LET least == CHOOSE x \in set : \A y \in set : TyId_ord(x) <= TyId_ord(y)
         IN  <<Visitable_TyId(least)>> \o BTreeSet_iter(set \ {least})

RECURSIVE visit_with(_, _, _)

\* iter().for_each(|ty| ty.visit_with(visitor))
RECURSIVE for_each(_, _, _)
for_each(V, tr, elems) ==
    IF elems = <<>> THEN tr
    ELSE for_each(V, visit_with(V, tr, elems[1]), SubSeq(elems, 2, Len(elems)))

visit_with(V, tr, x) ==
    CASE x[1] = "TyId" -> visit_ty(V, tr, x[2])
      [] x[1] = "Vec" -> for_each(V, tr, x[2])
      [] x[1] = "Slice" -> for_each(V, tr, x[2])
      [] x[1] = "BTreeSet" -> for_each(V, tr, BTreeSet_iter(x[2]))

----------------------------------------------------------------------------
(* LocalBinding and BlockEnv *)

Local(pat, is_mut) == [kind |-> "Local", pat |-> pat, is_mut |-> is_mut]

Param(idx, ty, is_mut) == [kind |-> "Param", idx |-> idx, ty |-> ty, is_mut |-> is_mut]

ScopeId_Func(f) == <<"Func", f>>

ScopeId_Block(body, e) == <<"Block", body, e>>

BlockEnv_new(scope, idx) == [scope |-> scope, vars |-> EmptyMap, idx |-> idx]

lookup_var(blockenv, var) == MapGet(blockenv.vars, var)

\* a register_var that keeps the binding a name already has
register_var_keep_first(blockenv, name, var) ==
    IF name \in DOMAIN blockenv.vars THEN blockenv
    ELSE [blockenv EXCEPT !.vars = MapInsert(blockenv.vars, name, var)]

register_var(blockenv, name, var) ==
    [blockenv EXCEPT !.vars = MapInsert(blockenv.vars, name, var)]

----------------------------------------------------------------------------
(* Scope queries and scope operations, on a value ve of var_env *)

\* .last().unwrap() panics on an empty vector
scope_panics(ve) == ve = <<>>

scope(ve) == Last(ve).scope

current_block_idx(ve) == Last(ve).idx

\* Vec indexing is 0-based
get_block(ve, idx) == ve[idx + 1]

enter_scope_panics(body, ve, block) ==
    expr_data(block) # "Block" /\ scope_panics(ve)

\* an enter_scope that pushes nothing when the expression is not a block
enter_scope_reuse(body, ve, block) ==
    IF expr_data(block) = "Block"
    THEN Append(ve, BlockEnv_new(ScopeId_Block(body, block), Len(ve)))
    ELSE ve

\* an enter_scope that numbers the scopes from 1
enter_scope_from_one(body, ve, block) ==
    LET new_scope == IF expr_data(block) = "Block"
                     THEN ScopeId_Block(body, block)
                     ELSE scope(ve)
    IN  Append(ve, BlockEnv_new(new_scope, Len(ve) + 1))

enter_scope(body, ve, block) ==
    LET new_scope == IF expr_data(block) = "Block"
                     THEN ScopeId_Block(body, block)
                     ELSE scope(ve)
    IN  Append(ve, BlockEnv_new(new_scope, Len(ve)))

\* .pop().unwrap() panics when there is nothing to pop
leave_scope_panics(ve) == ve = <<>>

\* a leave_scope that unwinds to the root scope
leave_scope_to_root(ve) == <<ve[1]>>

\* a leave_scope that keeps the bindings of the popped scope in its parent
leave_scope_merge(ve) ==
    IF Len(ve) = 1 THEN <<>>
    ELSE [Front(ve) EXCEPT ![Len(ve) - 1].vars =
             [n \in (DOMAIN @) \cup DOMAIN Last(ve).vars |->
                 IF n \in DOMAIN Last(ve).vars THEN Last(ve).vars[n] ELSE @[n]]]

\* a leave_scope that writes the staged bindings into the scope it uncovers
leave_scope_flushes(ve) ==
    IF Len(ve) = 1 THEN <<>>
    ELSE [Front(ve) EXCEPT ![Len(ve) - 1].vars =
             [n \in (DOMAIN @) \cup DOMAIN pending_vars |->
                 IF n \in DOMAIN pending_vars THEN pending_vars[n] ELSE @[n]]]

leave_scope(ve) == Front(ve)

----------------------------------------------------------------------------
(* The loop context, on a value ls of loop_stack *)

\* an enter_loop that puts the loop below the loops already entered
enter_loop_below(ls, stmt) == <<stmt>> \o ls

enter_loop(ls, stmt) == Append(ls, stmt)

\* a leave_loop that unwraps what pop() returns
leave_loop_unwraps(ls) == ls = <<>>

\* leave_loop drops what pop() returns: it aborts on no stack
leave_loop_panics(ls) == FALSE

\* pop() on an empty vector returns None, which leave_loop drops
leave_loop(ls) == IF ls = <<>> THEN ls ELSE Front(ls)

current_loop(ls) == IF ls = <<>> THEN None ELSE Some(Last(ls))

----------------------------------------------------------------------------
(* The function of the body and its assumptions *)

\* Body::body_kind: body1 is a body that belongs to no function
body_kind(body) == IF body = "body1" THEN "Anonymous" ELSE "FuncBody"

\* ScopeId::item: the item of an item scope is that item, the item of a
\* block scope is the body the block is in
ScopeId_item(s) == IF s[1] = "Func" THEN <<"Func", s[2]>> ELSE <<"Body", s[2]>>

\* lower_func of a function gives its FuncDef
lower_func(f) == Some(<<"FuncDef", f>>)

PredicateListId_empty_list == <<"empty_list">>

\* what the constraint collector answers for a FuncDef
collect_func_def_constraints(func_def) == <<"constraints", func_def>>

\* a func() that does not look at the kind of the body
TyCheckEnv_func_any_kind(body, ve) ==
    IF ve = <<>> \/ ScopeId_item(ve[1].scope)[1] # "Func" THEN None
    ELSE lower_func(ScopeId_item(ve[1].scope)[2])

\* TyCheckEnv::func: the function of the first scope of the stack when the
\* body is a function body, None when there is no such scope, when its item
\* is not a function, and when the body is anonymous
TyCheckEnv_func(body, ve) ==
    IF body_kind(body) = "FuncBody"
    THEN IF ve = <<>> \/ ScopeId_item(ve[1].scope)[1] # "Func" THEN None
         ELSE lower_func(ScopeId_item(ve[1].scope)[2])
    ELSE None

assumptions(body, ve) ==
    IF TyCheckEnv_func(body, ve) # None
    THEN collect_func_def_constraints(TyCheckEnv_func(body, ve)[2])
    ELSE PredicateListId_empty_list

----------------------------------------------------------------------------
(* Pending bindings *)

register_pending_binding(pv, name, binding) == MapInsert(pv, name, binding)

flush_pending_bindings_panics(ve) == ve = <<>>

\* drain() yields every entry once; the keys are distinct, so the order in
\* which the entries are inserted into the top scope does not matter
RECURSIVE flush_into(_, _, _)
flush_into(blockenv, pv, todo) ==
    IF todo = {} THEN blockenv
    ELSE LET name == CHOOSE n \in todo : TRUE
         IN  flush_into(register_var(blockenv, name, pv[name]), pv, todo \ {name})

\* a flush into the root scope
flush_pending_bindings_root(ve, pv) ==
    [ve EXCEPT ![1] = flush_into(ve[1], pv, DOMAIN pv)]

\* a flush into every scope of the stack
flush_pending_bindings_all(ve, pv) ==
    [i \in 1..Len(ve) |-> flush_into(ve[i], pv, DOMAIN pv)]

flush_pending_bindings(ve, pv) ==
    [ve EXCEPT ![Len(ve)] = flush_into(ve[Len(ve)], pv, DOMAIN pv)]

----------------------------------------------------------------------------
(* Lookup of a name, as the inference pass performs it: from the current  *)
(* block down to block 0, the first scope that binds the name wins         *)

RECURSIVE lookup_from(_, _, _)
lookup_from(ve, idx, name) ==
    LET found == lookup_var(get_block(ve, idx), name)
    IN  IF found # None THEN found
        ELSE IF idx = 0 THEN None
        ELSE lookup_from(ve, idx - 1, name)

lookup(ve, name) == lookup_from(ve, current_block_idx(ve), name)

----------------------------------------------------------------------------
(* Result tables *)

ExprProp_new(ty, is_mut) == [ty |-> ty, is_mut |-> is_mut, binding |-> None]

ExprProp_new_binding_ref(ty, is_mut, binding) ==
    [ty |-> ty, is_mut |-> is_mut, binding |-> Some(binding)]

typed_expr(et, expr) == MapGet(et, expr)

\* a type_expr that keeps the record a node already has
type_expr_keep_first(et, expr, typed) ==
    IF expr \in DOMAIN et THEN et ELSE MapInsert(et, expr, typed)

type_expr(et, expr, typed) == MapInsert(et, expr, typed)

type_pat(pt, pat, ty) == MapInsert(pt, pat, ty)

\* a lookup_binding_ty that takes an untyped pattern for one that never
\* gets a value
lookup_binding_ty_never(pt, binding) ==
    IF binding.kind = "Local"
    THEN IF MapGet(pt, binding.pat) = None THEN TyNever ELSE MapGet(pt, binding.pat)[2]
    ELSE binding.ty

\* get(..).copied().unwrap_or_else(..): the type recorded for the pattern of
\* a local, the Invalid marker when there is none; the type a parameter
\* binding carries
lookup_binding_ty(pt, binding) ==
    IF binding.kind = "Local"
    THEN IF MapGet(pt, binding.pat) = None THEN TyInvalid ELSE MapGet(pt, binding.pat)[2]
    ELSE binding.ty

\* insert() returns the value the key had: Some(_) makes the method panic,
\* after the table has been written
\* a register_callable that overwrites silently
register_callable_never_panics(cs, expr) == FALSE

register_callable_panics(cs, expr) == MapGet(cs, expr) # None

register_callable(cs, expr, callable) == MapInsert(cs, expr, callable)

\* struct Callable, as far as finish reaches into it: the function called
\* and the types its generic parameters are instantiated with
Callable(func_def, generic_args) ==
    [func_def |-> func_def, generic_args |-> generic_args]

\* a finish that returns the callables as they were registered
finish_unfolded_callables(body, pt, et, cs, table) ==
    [body |-> Some(body),
     pat_ty |-> [p \in DOMAIN pt |-> EnvFinisher_fold_ty(table, pt[p])],
     expr_ty |-> [e \in DOMAIN et |-> ExprProp_fold_with(table, et[e])],
     callables |-> cs]

\* finish: every value of expr_ty and of pat_ty is replaced in place by its
\* fold, the callables are collected again with their folds, and the three
\* tables become the TypedBody
finish(body, pt, et, cs, table) ==
    [body |-> Some(body),
     pat_ty |-> [p \in DOMAIN pt |-> EnvFinisher_fold_ty(table, pt[p])],
     expr_ty |-> [e \in DOMAIN et |-> ExprProp_fold_with(table, et[e])],
     callables |-> [e \in DOMAIN cs |-> Callable_fold_with(table, cs[e])]]

----------------------------------------------------------------------------
(* Construction *)

\* a constructor that registers the parameters in the root scope
RECURSIVE register_params_in_root(_, _, _)
register_params_in_root(ve, params, idx) ==
    IF idx >= Len(params) THEN ve
    ELSE LET param == params[idx + 1]
             lowered == IF param.ty[1] = "Present"
                        THEN lower_hir_ty(param.ty[2])
                        ELSE TyInvalid
             ty == IF is_star_kind(lowered) THEN lowered ELSE TyInvalid
             var == Param(idx, ty, param.is_mut)
         IN  IF param.name = None
             THEN register_params_in_root(ve, params, idx + 1)
             ELSE register_params_in_root(
                      [ve EXCEPT ![1] = register_var(ve[1], param.name[2], var)],
                      params, idx + 1)

\* a constructor that gives up on the parameters at the first one whose
\* annotation is missing or ill-kinded
RECURSIVE register_params_until_bad(_, _, _)
register_params_until_bad(ve, params, idx) ==
    IF idx >= Len(params) THEN ve
    ELSE LET param == params[idx + 1]
             lowered == IF param.ty[1] = "Present"
                        THEN lower_hir_ty(param.ty[2])
                        ELSE TyInvalid
             var == Param(idx, lowered, param.is_mut)
         IN  IF lowered = TyInvalid \/ ~is_star_kind(lowered) THEN ve
             ELSE IF param.name = None
             THEN register_params_until_bad(ve, params, idx + 1)
             ELSE register_params_until_bad(
                      [ve EXCEPT ![Len(ve)] = register_var(ve[Len(ve)], param.name[2], var)],
                      params, idx + 1)

\* a constructor that numbers the named parameters only
RECURSIVE register_params_count_named(_, _, _)
register_params_count_named(ve, params, idx) ==
    IF idx >= Len(params) THEN ve
    ELSE LET param == params[idx + 1]
             lowered == IF param.ty[1] = "Present"
                        THEN lower_hir_ty(param.ty[2])
                        ELSE TyInvalid
             ty == IF is_star_kind(lowered) THEN lowered ELSE TyInvalid
             named == Cardinality({j \in 1..idx : params[j].name # None})
             var == Param(named, ty, param.is_mut)
         IN  IF param.name = None
             THEN register_params_count_named(ve, params, idx + 1)
             ELSE register_params_count_named(
                      [ve EXCEPT ![Len(ve)] = register_var(ve[Len(ve)], param.name[2], var)],
                      params, idx + 1)

\* The parameters are visited in declaration order, idx counting from 0;
\* each named one is registered in the scope on top of the stack
RECURSIVE register_params(_, _, _)
register_params(ve, params, idx) ==
    IF idx >= Len(params) THEN ve
    ELSE LET param == params[idx + 1]
             lowered == IF param.ty[1] = "Present"
                        THEN lower_hir_ty(param.ty[2])
                        ELSE TyInvalid
             ty == IF is_star_kind(lowered) THEN lowered ELSE TyInvalid
             var == Param(idx, ty, param.is_mut)
         IN  IF param.name = None
             THEN register_params(ve, params, idx + 1)
             ELSE register_params(
                      [ve EXCEPT ![Len(ve)] = register_var(ve[Len(ve)], param.name[2], var)],
                      params, idx + 1)

\* the name a binding was declared with: the last segment of the path of a
\* local's pattern, the name of the parameter at the binding's index
binding_name(binding, func_params) ==
    IF binding.kind = "Local"
    THEN pat_data(binding.pat)
    ELSE func_params[binding.idx + 1].name[2]

NoEnv == [result |-> "Err", var_env |-> <<>>]

\* a constructor that does not ask for the body
new_with_func_ignores_body(f) ==
    [result |-> "Ok", var_env |-> <<BlockEnv_new(ScopeId_Func(f.scope), 0)>>]

\* a constructor that takes an absent parameter list for an empty one
new_with_func_no_params(f) ==
    IF f.body = None THEN NoEnv
    ELSE [result |-> "Ok",
          var_env |-> register_params(
                          enter_scope(f.body[2],
                                      <<BlockEnv_new(ScopeId_Func(f.scope), 0)>>,
                                      f.body_expr),
                          IF f.params = None THEN <<>> ELSE f.params[2], 0)]

new_with_func(f) ==
    IF f.body = None THEN NoEnv
    ELSE LET body == f.body[2]
             root == <<BlockEnv_new(ScopeId_Func(f.scope), 0)>>
             entered == enter_scope(body, root, f.body_expr)
         IN  IF f.params = None THEN NoEnv
             ELSE [result |-> "Ok",
                   var_env |-> register_params(entered, f.params[2], 0)]

----------------------------------------------------------------------------
(* The functions an environment is constructed from *)

HirParam(name, ty, is_mut) == [name |-> name, ty |-> ty, is_mut |-> is_mut]

Present(x) == <<"Present", x>>

Absent == <<"Absent">>

HirFunc(body, body_expr, params) ==
    [scope |-> "f", body |-> body, body_expr |-> body_expr, params |-> params]

\* fn f(a: Int, mut b: Int) { ... }, one of AllFuncs
FuncAB ==
    HirFunc(Some("body0"), "e0",
            Some(<<HirParam(Some("a"), Present("Int"), FALSE),
                   HirParam(Some("b"), Present("Int"), TRUE)>>))

\* fn f(mut a: Bool) { ... }, the function of Spec and SpecTables
FuncA ==
    HirFunc(Some("body0"), "e0", Some(<<HirParam(Some("a"), Present("Bool"), TRUE)>>))

Funcs == {FuncA}

\* fn f(a: Int, mut a: Bool) { ... }, one of AllFuncs: two parameters of
\* one name
FuncAA ==
    HirFunc(Some("body0"), "e0",
            Some(<<HirParam(Some("a"), Present("Int"), FALSE),
                   HirParam(Some("a"), Present("Bool"), TRUE)>>))

----------------------------------------------------------------------------
(* History *)

\* where a staged binding was registered: d is the depth of the scope stack
\* at that time, left says that the scope then on top has been popped since
Origin(d, left) == [d |-> d, left |-> left]

\* the scope at position p of the stack is popped
MarkLeft(o, p) == IF o.d >= p THEN [o EXCEPT !.left = TRUE] ELSE o

\* the scope stack before an enter_scope: its depth, what scope() and
\* current_block_idx() return (nothing on an empty stack), and its scopes
Snapshot(ve) ==
    IF ve = <<>>
    THEN [depth |-> 0, scope |-> None, idx |-> None, env |-> ve]
    ELSE [depth |-> Len(ve),
          scope |-> Some(scope(ve)),
          idx |-> Some(current_block_idx(ve)),
          env |-> ve]

\* the calls made on the result tables: how often register_callable was
\* called for an expression and with which callable first, which nodes
\* were typed, whether the last call replaced a different record, and the
\* value each table was last given for a key; and, for every enter_loop
\* that no leave_loop has matched yet, what current_loop() was before it;
\* and whether the last loop operation was a leave_loop on no loop
NoHist == [reg_calls |-> [e \in {} |-> 0], first_callable |-> EmptyMap,
           typed_exprs |-> {}, typed_pats |-> {}, overwrote |-> FALSE,
           recorded |-> EmptyMap, loop_marks |-> <<>>, left_no_loop |-> FALSE]

\* nothing is visited
NoVisit == <<"NoVisit">>

\* no expression is analyzed
NoAttributes == <<"NoAttributes">>

\* no statement is parsed
NoParser == <<"NoParser">>

----------------------------------------------------------------------------
(* Initial states: the environment new_with_func returns *)

InitAll(F, X, A, P) ==
    \E f \in F :
        LET r == new_with_func(f)
        IN  /\ func = f
            /\ status = IF r.result = "Ok" THEN "ok" ELSE "err"
            /\ var_env = r.var_env
            /\ pending_vars = EmptyMap
            /\ pat_ty = EmptyMap
            /\ expr_ty = EmptyMap
            /\ callables = EmptyMap
            /\ loop_stack = <<>>
            /\ last_op = "new_with_func"
            /\ last_args = <<f>>
            /\ popped = {}
            /\ marks = <<>>
            /\ pending_origin = EmptyMap
            /\ hist = NoHist
            /\ typed_body = None
            /\ visited \in X
            /\ trace = <<>>
            /\ attributes \in A
            /\ parser \in P

InitWith(F, X) == InitAll(F, X, {NoAttributes}, {NoParser})

InitOf(F) == InitWith(F, {NoVisit})

Init == InitOf(Funcs)

----------------------------------------------------------------------------
(* Scope and pending-binding actions *)

\* what the type traversal works on; no method of the environment touches it
traversal == <<visited, trace>>

\* the state of the analyzer and of the parser
units == <<attributes, parser>>

\* what finish and the type traversal produce
results == <<typed_body, traversal, units>>

tables == <<pat_ty, expr_ty, callables, loop_stack, hist, results>>

Abort(op, args) ==
    /\ status' = "aborted"
    /\ last_op' = op
    /\ last_args' = args
    /\ popped' = {}
    /\ UNCHANGED <<func, var_env, pending_vars, marks, pending_origin, tables>>

EnterScopeExprs == {"e1", "e2"}

\* enter_scope called with a block of Blocks
EnterScopeOn(Blocks) ==
    /\ status = "ok"
    /\ Len(var_env) < MaxDepth
    /\ \E block \in Blocks :
        IF enter_scope_panics(func.body[2], var_env, block)
        THEN Abort("enter_scope", <<block>>)
        ELSE /\ var_env' = enter_scope(func.body[2], var_env, block)
             /\ marks' = Append(marks, Snapshot(var_env))
             /\ last_op' = "enter_scope"
             /\ last_args' = <<block>>
             /\ popped' = {}
             /\ UNCHANGED <<func, status, pending_vars, pending_origin, tables>>

EnterScope == EnterScopeOn(EnterScopeExprs)

\* a leave_scope that drops the staged bindings with the scope
LeaveScopeDropsPending ==
    /\ status = "ok"
    /\ var_env # <<>>
    /\ var_env' = leave_scope(var_env)
    /\ marks' = IF marks = <<>> THEN marks ELSE Front(marks)
    /\ pending_vars' = EmptyMap
    /\ pending_origin' = EmptyMap
    /\ last_op' = "leave_scope"
    /\ last_args' = <<>>
    /\ popped' = DOMAIN Last(var_env).vars
    /\ UNCHANGED <<func, status, tables>>

LeaveScope ==
    /\ status = "ok"
    /\ IF leave_scope_panics(var_env)
       THEN Abort("leave_scope", <<>>)
       ELSE /\ var_env' = leave_scope(var_env)
            /\ marks' = IF marks = <<>> THEN marks ELSE Front(marks)
            /\ pending_origin' =
                   [n \in DOMAIN pending_origin |->
                       MarkLeft(pending_origin[n], Len(var_env))]
            /\ last_op' = "leave_scope"
            /\ last_args' = <<>>
            /\ popped' = DOMAIN Last(var_env).vars
            /\ UNCHANGED <<func, status, pending_vars, tables>>

\* a pattern binds one name: p1 and p2 are two patterns that bind `a`
\* (p2 as `mut a`), p3 is a pattern that binds `b`
PendingInputs ==
    { <<"a", Local("p1", FALSE)>>, <<"a", Local("p2", TRUE)>>, <<"b", Local("p3", FALSE)>> }

\* register_pending_binding called with a name and a binding of Inputs
RegisterPendingBindingOn(Inputs) ==
    /\ status = "ok"
    /\ \E in \in Inputs :
        /\ pending_vars' = register_pending_binding(pending_vars, in[1], in[2])
        /\ pending_origin' = MapInsert(pending_origin, in[1], Origin(Len(var_env), FALSE))
        /\ last_args' = in
    /\ last_op' = "register_pending_binding"
    /\ popped' = {}
    /\ UNCHANGED <<func, status, var_env, marks, tables>>

RegisterPendingBinding == RegisterPendingBindingOn(PendingInputs)

FlushPendingBindings ==
    /\ status = "ok"
    /\ IF flush_pending_bindings_panics(var_env)
       THEN Abort("flush_pending_bindings", <<>>)
       ELSE /\ var_env' = flush_pending_bindings(var_env, pending_vars)
            /\ pending_vars' = EmptyMap
            /\ pending_origin' = EmptyMap
            /\ last_op' = "flush_pending_bindings"
            /\ last_args' = <<>>
            /\ popped' = {}
            /\ UNCHANGED <<func, status, marks, tables>>

Next ==
    \/ EnterScope
    \/ LeaveScope
    \/ RegisterPendingBinding
    \/ FlushPendingBindings

Spec == Init /\ [][Next]_vars

\* the same operations on the environment of fn f(a: Int, mut a: Bool)
InitDup == InitOf({FuncAA})

SpecDup == InitDup /\ [][Next]_vars

----------------------------------------------------------------------------
(* Loop actions *)

StmtIds == {"s1", "s2"}

\* enter_loop called with a statement of Stmts
EnterLoopOn(Stmts) ==
    /\ status = "ok"
    /\ Len(loop_stack) < MaxLoops
    /\ \E stmt \in Stmts :
        /\ loop_stack' = enter_loop(loop_stack, stmt)
        /\ last_args' = <<stmt>>
    /\ hist' = [hist EXCEPT !.loop_marks = Append(@, current_loop(loop_stack)),
                            !.left_no_loop = FALSE]
    /\ last_op' = "enter_loop"
    /\ popped' = {}
    /\ UNCHANGED <<func, status, var_env, pending_vars, marks, pending_origin,
                   pat_ty, expr_ty, callables, results>>

EnterLoop == EnterLoopOn(StmtIds)

LeaveLoop ==
    /\ status = "ok"
    /\ IF leave_loop_panics(loop_stack)
       THEN Abort("leave_loop", <<>>)
       ELSE /\ loop_stack' = leave_loop(loop_stack)
            /\ hist' = [hist EXCEPT !.loop_marks = IF @ = <<>> THEN @ ELSE Front(@),
                                    !.left_no_loop = (loop_stack = <<>>)]
            /\ last_op' = "leave_loop"
            /\ last_args' = <<>>
            /\ popped' = {}
            /\ UNCHANGED <<func, status, var_env, pending_vars, marks, pending_origin,
                           pat_ty, expr_ty, callables, results>>

NextLoops ==
    \/ EnterLoop
    \/ LeaveLoop
    \/ EnterScope
    \/ LeaveScope

\* the environment while the inference pass walks nested loops and blocks
SpecLoops == Init /\ [][NextLoops]_vars

----------------------------------------------------------------------------
(* Result-table actions *)

scopes == <<var_env, pending_vars, loop_stack, popped, marks, pending_origin>>

\* the expressions and patterns the inference pass types, and what it
\* records for them
TypedExprIds == {"e1", "e2"}

\* the inference variables of the body: ?1 is the type of a string literal
\* of length 3, ?4 that of one of length 5, ?2 is a general variable and ?3
\* the type of an integer literal
Var1 == TyVar(TyVarSort_String(3), 1)

Var2 == TyVar(TyVarSort_General, 2)

Var3 == TyVar(TyVarSort_Integral, 3)

Var4 == TyVar(TyVarSort_String(5), 4)

\* Array<?1, 2 : ?3>, the type of an array of two string literals
ArrayOfStrings ==
    TyApp(TyApp(TyBase("Array"), TyData_TyVar(Var1)),
          TyData_ConstTy(ConstTyData_Evaluated(2, TyData_TyVar(Var3))))

\* Option<?2>
OptionOfVar == TyApp(TyBase("Option"), TyData_TyVar(Var2))

ExprProps ==
    { ExprProp_new(TyBase("Int"), FALSE),
      ExprProp_new_binding_ref(TyBase("Bool"), TRUE, Local("p1", FALSE)),
      ExprProp_new(TyData_TyVar(Var1), FALSE),
      ExprProp_new(ArrayOfStrings, TRUE) }

TypedPatIds == {"p1", "p3"}

PatTys == {TyBase("Int"), TyInvalid, OptionOfVar}

CallExprIds == {"e1", "e2"}

Callables ==
    { Callable("c1", <<TyData_TyVar(Var2)>>),
      Callable("c2", <<TyBase("Int"), TyData_TyVar(Var1)>>) }

\* the unification tables finish is given: nothing resolved; ?2 bound to ?1,
\* ?1 to ?4 and ?3 to u256; ?1 bound to String<7> and ?2 to Int; ?2 bound to
\* Option<?1>
Table0 == EmptyMap

Table1 == MapInsert(MapInsert(MapInsert(EmptyMap, 1, TyData_TyVar(Var4)),
                              2, TyData_TyVar(Var1)), 3, TyBase("u256"))

Table2 == MapInsert(MapInsert(EmptyMap, 1, String_of_len(7)), 2, TyBase("Int"))

Table3 == MapInsert(EmptyMap, 2, TyApp(TyBase("Option"), TyData_TyVar(Var1)))

UnificationTables == {Table0, Table1, Table2, Table3}

\* type_expr called with an expression of Exprs and a record of Props
TypeExprOn(Exprs, Props) ==
    /\ status = "ok"
    /\ \E expr \in Exprs, typed \in Props :
        /\ expr_ty' = type_expr(expr_ty, expr, typed)
        /\ hist' = [hist EXCEPT
                      !.typed_exprs = @ \cup {expr},
                      !.recorded = MapInsert(@, <<"expr_ty", expr>>, typed),
                      !.overwrote = typed_expr(expr_ty, expr) \notin {None, Some(typed)}]
        /\ last_args' = <<expr, typed>>
    /\ last_op' = "type_expr"
    /\ UNCHANGED <<func, status, pat_ty, callables, scopes, results>>

TypeExpr == TypeExprOn(TypedExprIds, ExprProps)

\* type_pat called with a pattern of Pats and a type of Tys
TypePatOn(Pats, Tys) ==
    /\ status = "ok"
    /\ \E pat \in Pats, ty \in Tys :
        /\ pat_ty' = type_pat(pat_ty, pat, ty)
        /\ hist' = [hist EXCEPT
                      !.typed_pats = @ \cup {pat},
                      !.recorded = MapInsert(@, <<"pat_ty", pat>>, ty),
                      !.overwrote = MapGet(pat_ty, pat) \notin {None, Some(ty)}]
        /\ last_args' = <<pat, ty>>
    /\ last_op' = "type_pat"
    /\ UNCHANGED <<func, status, expr_ty, callables, scopes, results>>

TypePat == TypePatOn(TypedPatIds, PatTys)

\* register_callable called with an expression of Exprs and a callable of Cs
RegisterCallableOn(Exprs, Cs) ==
    /\ \E expr \in Exprs, callable \in Cs :
        /\ status = "ok"
        /\ callables' = register_callable(callables, expr, callable)
        /\ status' = IF register_callable_panics(callables, expr) THEN "aborted" ELSE "ok"
        /\ hist' = [hist EXCEPT
                      !.reg_calls = MapInsert(@, expr,
                                        IF expr \in DOMAIN @ THEN @[expr] + 1 ELSE 1),
                      !.first_callable = IF expr \in DOMAIN @ THEN @
                                         ELSE MapInsert(@, expr, callable),
                      !.recorded = MapInsert(@, <<"callables", expr>>, callable),
                      !.overwrote = MapGet(callables, expr) \notin {None, Some(callable)}]
        /\ last_args' = <<expr, callable>>
    /\ last_op' = "register_callable"
    /\ UNCHANGED <<func, pat_ty, expr_ty, scopes, results>>

RegisterCallable == RegisterCallableOn(CallExprIds, Callables)

\* finish consumes the environment: no method is called on it afterwards.
\* The tables keep the values they had when finish was called.
Finish ==
    /\ status = "ok"
    /\ \E table \in UnificationTables :
        /\ typed_body' = Some(finish(func.body[2], pat_ty, expr_ty, callables, table))
        /\ last_args' = <<table>>
    /\ status' = "finished"
    /\ last_op' = "finish"
    /\ UNCHANGED <<func, pat_ty, expr_ty, callables, hist, scopes, traversal, units>>

NextTables ==
    \/ TypeExpr
    \/ TypePat
    \/ RegisterCallable
    \/ Finish

\* the environment while the inference pass records its results
SpecTables == Init /\ [][NextTables]_vars

----------------------------------------------------------------------------
(* Every operation that leaves the environment in use, each on one input   *)

FrameBlocks == {"e1"}

FrameStmts == {"s1"}

FramePending == { <<"a", Local("p1", FALSE)>>, <<"b", Local("p3", FALSE)>> }

FrameExprProps ==
    { ExprProp_new(TyBase("Int"), FALSE),
      ExprProp_new_binding_ref(TyBase("Bool"), TRUE, Local("p1", FALSE)) }

FramePatTys == { TyBase("Int") }

FrameCallables == { Callable("c1", <<TyData_TyVar(Var2)>>) }

NextFrame ==
    \/ EnterScopeOn(FrameBlocks)
    \/ LeaveScope
    \/ EnterLoopOn(FrameStmts)
    \/ LeaveLoop
    \/ RegisterPendingBindingOn(FramePending)
    \/ TypeExprOn({"e1"}, FrameExprProps)
    \/ TypePatOn({"p1"}, FramePatTys)
    \/ RegisterCallableOn({"e1"}, FrameCallables)

SpecFrame == Init /\ [][NextFrame]_vars

----------------------------------------------------------------------------
(* Construction from any function of a small family, followed by scope     *)
(* operations                                                              *)

HirNames == {None, Some("a"), Some("b")}

HirTys == {Present("Int"), Present("Option"), Absent}

HirParams == {HirParam(n, t, m) : n \in HirNames, t \in HirTys, m \in BOOLEAN}

ParamLists ==
    {<<>>} \cup {<<p>> : p \in HirParams} \cup {<<p, q>> : p \in HirParams, q \in HirParams}

AllFuncs ==
    {HirFunc(b, x, ps) : b \in {None, Some("body0"), Some("body1")},
                         x \in {"e0", "e2"},
                         ps \in {None} \cup {Some(l) : l \in ParamLists}}

InitNew == InitOf(AllFuncs)

NextNew ==
    \/ EnterScope
    \/ LeaveScope

SpecNew == InitNew /\ [][NextNew]_vars

----------------------------------------------------------------------------
(* The type traversal run on one visitable value, by visitors that         *)
(* override leaf hooks only                                                *)

\* the types without parts
LeafTys ==
    { TyData_TyVar(Var2), TyData_TyParam("T"), TyBase("Int"), TyBase("Option"),
      TyBase("foo"), TyNever, TyInvalid }

\* a const-type variable of type u256, the const parameter N of type T, the
\* literal 2 of a type not yet inferred, and an unevaluated const-type
ConstTys ==
    { TyData_ConstTy(ConstTyData_TyVar(TyVar(TyVarSort_General, 5), TyBase("u256"))),
      TyData_ConstTy(ConstTyData_TyParam("N", TyData_TyParam("T"))),
      TyData_ConstTy(ConstTyData_Evaluated(2, TyData_TyVar(Var3))),
      TyData_ConstTy(ConstTyData_UnEvaluated("body2")) }

AtomTys == LeafTys \cup ConstTys

\* applications of a constructor, a variable or a parameter to one argument
AppTys ==
    {TyApp(abs, arg) :
        abs \in {TyBase("Option"), TyBase("Array"), TyData_TyVar(Var2), TyData_TyParam("T")},
        arg \in AtomTys}

\* applications to a second argument, and an application as the argument
NestedTys ==
    {TyApp(TyApp(TyBase("Array"), elem), len) : elem \in AtomTys, len \in AtomTys}
        \cup {TyApp(TyBase("Option"), arg) : arg \in AppTys}

VisitTys == AtomTys \cup AppTys \cup NestedTys

\* the element types of the containers
ElemTys == {Interned[i] : i \in 1..Len(Interned)}

Seqs(S) == {<<>>} \cup {<<x>> : x \in S} \cup {<<x, y>> : x \in S, y \in S}

Visitables ==
    {Visitable_TyId(ty) : ty \in VisitTys}
        \cup {Visitable_Vec(l) : l \in Seqs({Visitable_TyId(ty) : ty \in ElemTys})}
        \cup {Visitable_Slice(l) : l \in Seqs({Visitable_TyId(ty) : ty \in ElemTys})}
        \cup {Visitable_BTreeSet(b) : b \in SUBSET ElemTys}
        \cup {Visitable_Vec(<<Visitable_Vec(l), Visitable_BTreeSet(b)>>) :
                  l \in Seqs({Visitable_TyId(TyData_TyParam("T"))}),
                  b \in SUBSET {Interned[1], Interned[3]}}

\* a collector of type variables, one of type parameters, one of type and
\* const parameters, and a visitor that records every leaf
Visitors ==
    { {"visit_var"}, {"visit_param"}, {"visit_param", "visit_const_param"}, LeafHooks }

InitVisit == InitWith(Funcs, Visitables)

\* visited.visit_with(&mut visitor), on a visitor that has recorded nothing
VisitWith ==
    /\ last_op = "new_with_func"
    /\ \E V \in Visitors :
        /\ trace' = visit_with(V, <<>>, visited)
        /\ last_args' = <<V>>
    /\ last_op' = "visit_with"
    /\ UNCHANGED <<func, status, pending_vars, pat_ty, expr_ty, callables, hist,
                   typed_body, visited, scopes, units>>

NextVisit == VisitWith

SpecVisit == InitVisit /\ [][NextVisit]_vars

----------------------------------------------------------------------------
(* The analyzer's expression attributes: where the value of an expression  *)
(* is, and where it is moved to                                            *)

\* enum Location
Location_Storage(nonce) == <<"Storage", nonce>>

Location_Memory == <<"Memory">>

Location_Value == <<"Value">>

\* Result<_, SemanticError>
Ok(x) == <<"Ok", x>>

cannot_move == <<"Err", "cannot_move">>

\* the variants of Type, each a tag and what it wraps
Type(variant, of) == <<variant, of>>

assign_location(typ) ==
    IF typ[1] \in {"Base", "Contract"} THEN Ok(Location_Value)
    ELSE IF typ[1] \in {"Array", "Tuple", "String", "Struct"} THEN Ok(Location_Memory)
    ELSE cannot_move

ExpressionAttributes_new(typ, location) ==
    [typ |-> typ, location |-> location, move_location |-> None]

into_cloned(self) ==
    IF self.location # Location_Memory
    THEN cannot_move
    ELSE Ok([self EXCEPT !.move_location = Some(Location_Memory)])

into_cloned_from_sto(self) ==
    IF self.location[1] # "Storage"
    THEN cannot_move
    ELSE Ok([self EXCEPT !.move_location = Some(Location_Memory)])

into_loaded(self) ==
    IF self.typ[1] \notin {"Base", "Contract"}
    THEN cannot_move
    ELSE IF self.location # Location_Value
    THEN Ok([self EXCEPT !.move_location = Some(Location_Value)])
    ELSE Ok(self)

final_location(self) ==
    IF self.move_location # None THEN self.move_location[2] ELSE self.location

\* an into_assignable that lets a value of a memory type be anywhere
into_assignable_anywhere(self) ==
    LET assign == assign_location(self.typ)
    IN  IF assign[1] = "Err" THEN assign
        ELSE IF assign[2] = Location_Value THEN into_loaded(self)
        ELSE Ok(self)

\* assign_location returns no Storage location: the third arm is not taken
into_assignable(self) ==
    LET assign == assign_location(self.typ)
    IN  IF assign[1] = "Err" THEN assign
        ELSE IF assign[2] = Location_Value THEN into_loaded(self)
        ELSE IF final_location(self) = Location_Memory THEN Ok(self)
        ELSE cannot_move

\* the types and locations attributes are made of
Types ==
    { Type("Base", "u256"), Type("Base", "bool"), Type("Contract", "Foo"),
      Type("Array", "u256"), Type("Tuple", "empty"), Type("String", 3),
      Type("Struct", "Bar"), Type("Map", "u256") }

Locations ==
    { Location_Storage(None), Location_Storage(Some(0)), Location_Memory, Location_Value }

InitMoves ==
    InitAll(Funcs, {NoVisit},
            {Ok(ExpressionAttributes_new(t, l)) : t \in Types, l \in Locations},
            {NoParser})

\* one of the consuming methods is called on the attributes the last call
\* returned; none can be called on an error
Move(op, result) ==
    /\ attributes[1] = "Ok"
    /\ attributes' = result
    /\ last_op' = op
    /\ last_args' = <<attributes[2]>>
    /\ UNCHANGED <<func, status, pat_ty, expr_ty, callables, hist, typed_body,
                   traversal, parser, scopes>>

IntoCloned == Move("into_cloned", into_cloned(attributes[2]))

IntoClonedFromSto == Move("into_cloned_from_sto", into_cloned_from_sto(attributes[2]))

IntoLoaded == Move("into_loaded", into_loaded(attributes[2]))

IntoAssignable == Move("into_assignable", into_assignable(attributes[2]))

NextMoves ==
    \/ IntoCloned
    \/ IntoClonedFromSto
    \/ IntoLoaded
    \/ IntoAssignable

SpecMoves == InitMoves /\ [][NextMoves]_vars

----------------------------------------------------------------------------
(* The parser of assignment statements.  A Parser is the tokens not yet    *)
(* consumed, the kind of the node of the scope being parsed, the children  *)
(* of that node and the errors reported                                    *)

Parser_new(tokens) ==
    [tokens |-> tokens, kind |-> "AssignStmt", tree |-> <<>>, errors |-> <<>>,
     newline_as_trivia |-> TRUE]

current_kind(p) == IF p.tokens = <<>> THEN None ELSE Some(Head(p.tokens))

\* the current token becomes a child of the node
bump(p) == [p EXCEPT !.tokens = Tail(@), !.tree = Append(@, Head(p.tokens))]

\* <<parser, consumed>>
bump_if(p, kind) ==
    IF current_kind(p) = Some(kind) THEN <<bump(p), TRUE>> ELSE <<p, FALSE>>

set_newline_as_trivia(p, b) == [p EXCEPT !.newline_as_trivia = b]

\* a shift operator is two angle brackets of one direction in a row
is_shift(p, angle) ==
    Len(p.tokens) >= 2 /\ p.tokens[1] = angle /\ p.tokens[2] = angle

is_lshift(p) == is_shift(p, "Lt")

is_rshift(p) == is_shift(p, "Gt")

\* LShiftScope and RShiftScope: both brackets become one child
parse_shift(p, node) ==
    [p EXCEPT !.tokens = Tail(Tail(@)), !.tree = Append(@, node)]

\* a path pattern: one identifier
parse_pat(p) == [p EXCEPT !.tokens = Tail(@), !.tree = Append(@, "Pat")]

\* an expression node is opened, with the current token in it if there is one
parse_expr(p) ==
    [p EXCEPT !.tokens = IF @ = <<>> THEN @ ELSE Tail(@), !.tree = Append(@, "Expr")]

\* the message is reported and an error node opened
error_and_recover(p, msg) ==
    [p EXCEPT !.errors = Append(@, msg), !.tree = Append(@, "Error")]

\* the message expected `=`, without the back quotes
ExpectedEq == "expected ="

AugAssignOps ==
    {"Pipe", "Hat", "Amp", "Plus", "Minus", "Star", "Slash", "Percent", "Star2"}

\* a bump_aug_assign_op_opt that takes any angle bracket for an operator
bump_aug_assign_op_opt_any_angle(p) ==
    IF current_kind(p) # None /\ current_kind(p)[2] \in AugAssignOps \cup {"Lt", "Gt"}
    THEN <<bump(p), TRUE>>
    ELSE <<p, FALSE>>

\* <<parser, consumed>>
bump_aug_assign_op_opt(p) ==
    LET kind == current_kind(p)
    IN  IF kind # None /\ kind[2] \in AugAssignOps THEN <<bump(p), TRUE>>
        ELSE IF kind = Some("Lt")
        THEN IF is_lshift(p) THEN <<parse_shift(p, "LShift"), TRUE>> ELSE <<p, FALSE>>
        ELSE IF kind = Some("Gt")
        THEN IF is_rshift(p) THEN <<parse_shift(p, "RShift"), TRUE>> ELSE <<p, FALSE>>
        ELSE <<p, FALSE>>

set_kind(p, kind) == [p EXCEPT !.kind = kind]

AssignStmtScope_parse(p) ==
    LET pat == set_newline_as_trivia(parse_pat(p), FALSE)
        op == bump_aug_assign_op_opt(pat)
        aug == IF op[2] THEN set_kind(op[1], "AugAssignStmt") ELSE op[1]
        eq == bump_if(aug, "Eq")
    IN  IF ~eq[2] THEN error_and_recover(eq[1], ExpectedEq)
        ELSE parse_expr(eq[1])

\* the kinds of the tokens that follow the pattern
TokenKinds == AugAssignOps \cup {"Lt", "Gt", "Eq", "Ident"}

\* an identifier, which is the pattern, and up to MaxTokens tokens after it
TokenStreams ==
    {<<"Ident">> \o t : t \in UNION {[1..n -> TokenKinds] : n \in 0..MaxTokens}}

InitParse ==
    InitAll(Funcs, {NoVisit}, {NoAttributes}, {Parser_new(t) : t \in TokenStreams})

\* parser.parse(AssignStmtScope::default(), checkpoint), on a parser that
\* has consumed nothing
ParseAssignStmt ==
    /\ last_op = "new_with_func"
    /\ parser' = AssignStmtScope_parse(parser)
    /\ last_op' = "parse"
    /\ last_args' = <<parser.tokens>>
    /\ UNCHANGED <<func, status, pat_ty, expr_ty, callables, hist, typed_body,
                   traversal, attributes, scopes>>

NextParse == ParseAssignStmt

SpecParse == InitParse /\ [][NextParse]_vars

----------------------------------------------------------------------------
(* Properties *)

Max(S) == CHOOSE x \in S : \A y \in S : y <= x

\* the positions of the stack ve whose scope binds name n
Binders(ve, n) == {i \in 1..Len(ve) : n \in DOMAIN ve[i].vars}

\* C1 -- scope balance: a leave_scope that matches an enter_scope brings the
\* depth of the scope stack, the current scope and the current block index
\* back to what they were before that enter_scope, whatever was called in
\* between; a correctly nested sequence is made of such pairs.
ScopeBalance ==
    [][(last_op' = "leave_scope" /\ status' = "ok" /\ marks # <<>>) =>
          /\ Len(var_env') = Last(marks).depth
          /\ Snapshot(var_env').scope = Last(marks).scope
          /\ Snapshot(var_env').idx = Last(marks).idx]_vars

\* a leave_scope has closed a nested enter_scope/leave_scope pair inside an
\* enter_scope that is still open
BalancedPairClosed ==
    /\ last_op = "leave_scope"
    /\ status = "ok"
    /\ marks # <<>>
    /\ Len(var_env) = Last(marks).depth + 1

\* C2 -- shadowing: while a name is bound in two scopes of the stack, lookup
\* returns the binding of the inner (higher) one; when leave_scope pops the
\* inner scope, lookup returns the binding of the outer scope again.
Shadowing ==
    [][\A n \in Names :
          LET inner == Max(Binders(var_env, n))
              outer == Max(Binders(var_env, n) \ {inner})
          IN  (status = "ok" /\ Cardinality(Binders(var_env, n)) >= 2) =>
                  /\ lookup(var_env, n) = Some(var_env[inner].vars[n])
                  /\ (last_op' = "leave_scope" /\ status' = "ok" /\ inner = Len(var_env))
                         => lookup(var_env', n) = Some(var_env[outer].vars[n])]_vars

\* leave_scope has popped a scope that bound `a`, and lookup finds the
\* parameter `a` of the enclosing scope again
OuterBindingBack ==
    /\ last_op = "leave_scope"
    /\ status = "ok"
    /\ "a" \in popped
    /\ var_env # <<>>
    /\ lookup(var_env, "a") = Some(Param(0, TyBase("Bool"), TRUE))

\* the block indices of the stack ve
BlockIdxs(ve) == 0..(Len(ve) - 1)

\* C3 -- pending isolation: register_pending_binding changes no scope, and
\* no operation other than flush_pending_bindings adds a binding to a scope:
\* after it, lookup_var on any block of the stack finds for a name nothing,
\* or what lookup_var on that block found before.  So a staged binding
\* that no scope holds already is found by no lookup until it is flushed.
PendingIsolation ==
    [][(status' = "ok" /\ last_op' # "flush_pending_bindings") =>
          /\ \A idx \in BlockIdxs(var_env'), n \in Names :
                 LET found == lookup_var(get_block(var_env', idx), n)
                 IN  found # None =>
                         /\ idx \in BlockIdxs(var_env)
                         /\ found = lookup_var(get_block(var_env, idx), n)
          /\ last_op' = "register_pending_binding" =>
                 /\ var_env' = var_env
                 /\ MapGet(pending_vars', last_args'[1]) = Some(last_args'[2])]_vars

\* `a` has just been staged and lookup_var finds the staged binding in no
\* block of the stack
StagedNotVisible ==
    /\ last_op = "register_pending_binding"
    /\ status = "ok"
    /\ var_env # <<>>
    /\ last_args[1] = "a"
    /\ MapGet(pending_vars, "a") = Some(last_args[2])
    /\ \A idx \in BlockIdxs(var_env) :
           lookup_var(get_block(var_env, idx), "a") # Some(last_args[2])

\* C4 -- flush_pending_bindings writes every staged binding into the scope
\* on top of the stack, changes nothing else of that scope and no other
\* scope, and empties the staging table; with nothing staged (as right after
\* a flush) it changes nothing.
FlushMovesAll ==
    [][(last_op' = "flush_pending_bindings" /\ status' = "ok") =>
          LET top == Len(var_env)
          IN  /\ Len(var_env') = top
              /\ pending_vars' = EmptyMap
              /\ DOMAIN var_env'[top].vars =
                     (DOMAIN var_env[top].vars) \cup (DOMAIN pending_vars)
              /\ \A n \in DOMAIN pending_vars :
                     var_env'[top].vars[n] = pending_vars[n]
              /\ \A n \in (DOMAIN var_env[top].vars) \ (DOMAIN pending_vars) :
                     var_env'[top].vars[n] = var_env[top].vars[n]
              /\ var_env'[top].scope = var_env[top].scope
              /\ var_env'[top].idx = var_env[top].idx
              /\ \A i \in 1..(top - 1) : var_env'[i] = var_env[i]
              /\ pending_vars = EmptyMap => var_env' = var_env]_vars

\* a flush has emptied the staging table; the top scope holds the flushed
\* locals `a` and `b`, the scopes below it hold neither
FlushedIntoTop ==
    /\ last_op = "flush_pending_bindings"
    /\ status = "ok"
    /\ pending_vars = EmptyMap
    /\ Len(var_env) = 3
    /\ var_env[3].vars = [n \in Names |-> IF n = "a" THEN Local("p2", TRUE)
                                                     ELSE Local("p3", FALSE)]
    /\ "b" \notin DOMAIN var_env[2].vars
    /\ var_env[1].vars = EmptyMap

\* C5 as stated -- a binding staged while a branch's scope was on top of
\* the stack is not found in a scope entered, in the place of that scope,
\* after it was left.
NoLeakIntoSibling ==
    [][\A n \in DOMAIN pending_vars :
          ( /\ last_op' = "flush_pending_bindings"
            /\ status' = "ok"
            /\ pending_origin[n].left
            /\ Len(var_env) >= pending_origin[n].d )
          => lookup_var(get_block(var_env', current_block_idx(var_env')), n)
                 # Some(pending_vars[n])]_vars

\* C5 as amended -- a leave_scope that matches an enter_scope undoes every
\* binding flushed in between: the stack holds the scopes, with the
\* bindings, it held before the enter_scope.  The staging table is left as
\* it is, so a binding still staged at that point stays staged in the scopes
\* entered afterwards.
BranchBindingsUndone ==
    [][(last_op' = "leave_scope" /\ status' = "ok" /\ marks # <<>>) =>
          /\ var_env' = Last(marks).env
          /\ pending_vars' = pending_vars]_vars

\* a sibling scope has been entered while a binding staged in the branch
\* before it is still staged, and no block of the stack holds that binding
StagedAcrossSiblings ==
    /\ last_op = "enter_scope"
    /\ status = "ok"
    /\ \E n \in DOMAIN pending_vars :
          /\ pending_origin[n].left
          /\ Len(var_env) >= pending_origin[n].d
          /\ \A idx \in BlockIdxs(var_env) :
                 lookup_var(get_block(var_env, idx), n) # Some(pending_vars[n])

\* C9 as stated -- enter_scope of an expression that is not a block leaves
\* the depth of the scope stack and the current scope unchanged.
EnterNonBlockKeepsDepth ==
    [][(last_op' = "enter_scope" /\ status' = "ok"
            /\ expr_data(last_args'[1]) # "Block") =>
          /\ Len(var_env') = Len(var_env)
          /\ Last(var_env') = Last(var_env)]_vars

\* C9 as amended -- enter_scope always pushes one new scope without
\* bindings, whose block index is the depth before the call, and leaves the
\* scopes below as they are; the ScopeId of the new scope is that of the
\* block when the expression is a block, and the ScopeId of the scope that
\* was current otherwise.
EnterScopePushes ==
    [][(last_op' = "enter_scope" /\ status' = "ok") =>
          LET block == last_args'[1]
          IN  /\ Len(var_env') = Len(var_env) + 1
              /\ Front(var_env') = var_env
              /\ Last(var_env').vars = EmptyMap
              /\ current_block_idx(var_env') = Len(var_env)
              /\ scope(var_env') =
                     IF expr_data(block) = "Block"
                     THEN ScopeId_Block(func.body[2], block)
                     ELSE scope(var_env)]_vars

\* enter_scope of the non-block e2 inside the block e1 has pushed a third
\* scope that carries the ScopeId of e1
NonBlockEntered ==
    /\ last_op = "enter_scope"
    /\ status = "ok"
    /\ last_args = <<"e2">>
    /\ Len(var_env) = 3
    /\ scope(var_env) = ScopeId_Block("body0", "e1")
    /\ var_env[2].scope = ScopeId_Block("body0", "e1")

\* C10 -- the scope stack is not empty in a state that no panic has ended.
ScopeStackNeverEmpty == status = "ok" => var_env # <<>>

\* how often register_callable has been called for expression e
RegCalls(e) == IF e \in DOMAIN hist.reg_calls THEN hist.reg_calls[e] ELSE 0

\* C6 -- callable uniqueness: the first register_callable for an expression
\* succeeds and leaves its callable in the table; a second one for the same
\* expression aborts.  Unless aborted, the table holds one callable for
\* each expression registered, the one registered first.
CallableUniqueness ==
    /\ \A e \in CallExprIds :
          /\ RegCalls(e) >= 2 => status = "aborted"
          /\ status = "ok" =>
                /\ e \in DOMAIN callables <=> RegCalls(e) = 1
                /\ e \in DOMAIN callables => callables[e] = hist.first_callable[e]
    /\ (last_op = "register_callable" /\ RegCalls(last_args[1]) = 1) => status = "ok"

\* a second register_callable for an expression has aborted
SecondRegistrationAborted ==
    /\ last_op = "register_callable"
    /\ status = "aborted"
    /\ RegCalls(last_args[1]) = 2

\* C7 -- last write wins: right after type_expr(E, r), typed_expr(E) is r,
\* also when E had another record before, and the record of every other
\* expression and every pattern is as before; the same for type_pat;
\* typed_expr(E) is none exactly when type_expr was never called for E, and
\* likewise for patterns.
LastWriteWins ==
    [][/\ last_op' = "type_expr" =>
              /\ typed_expr(expr_ty', last_args'[1]) = Some(last_args'[2])
              /\ \A e \in ExprIds \ {last_args'[1]} :
                     typed_expr(expr_ty', e) = typed_expr(expr_ty, e)
              /\ pat_ty' = pat_ty
       /\ last_op' = "type_pat" =>
              /\ MapGet(pat_ty', last_args'[1]) = Some(last_args'[2])
              /\ \A q \in TypedPatIds \ {last_args'[1]} :
                     MapGet(pat_ty', q) = MapGet(pat_ty, q)
              /\ expr_ty' = expr_ty
       /\ \A e \in ExprIds :
              typed_expr(expr_ty', e) = None <=> e \notin hist'.typed_exprs
       /\ \A q \in TypedPatIds :
              MapGet(pat_ty', q) = None <=> q \notin hist'.typed_pats]_vars

\* type_expr has replaced a different record of e1, and typed_expr(e1)
\* returns the new one
RecordOverwritten ==
    /\ last_op = "type_expr"
    /\ hist.overwrote
    /\ last_args[1] = "e1"
    /\ typed_expr(expr_ty, "e1") = Some(last_args[2])

\* the parameters of the function the environment was constructed from
FuncParams == func.params[2]

\* the last parameter declared with the name of parameter i
LastNamed(i) ==
    Max({j \in 1..Len(FuncParams) : FuncParams[j].name = FuncParams[i].name})

Constructed == last_op = "new_with_func" /\ status = "ok"

\* C8 as stated -- after construction the root scope (stack position 0)
\* binds the name of every named parameter to a Param binding of a
\* parameter of that name, with that parameter's index and mutability.
ParamsInRootScope ==
    Constructed =>
        \A i \in 1..Len(FuncParams) :
            FuncParams[i].name # None =>
                LET found == lookup_var(get_block(var_env, 0), FuncParams[i].name[2])
                    j == LastNamed(i)
                IN  /\ found # None
                    /\ found[2].kind = "Param"
                    /\ found[2].idx = j - 1
                    /\ found[2].is_mut = FuncParams[j].is_mut

\* C8 as amended -- after construction the stack holds two scopes: the
\* root scope at position 0, with the ScopeId of the function and without
\* bindings, and above it the scope pushed by entering the body's
\* expression.  That second scope binds the name of every named parameter
\* to the Param binding of the last parameter declared with that name, with
\* its index and its declared mutability, and binds no other name.
ParamsInBodyScope ==
    Constructed =>
        /\ Len(var_env) = 2
        /\ get_block(var_env, 0).scope = ScopeId_Func(func.scope)
        /\ get_block(var_env, 0).vars = EmptyMap
        /\ current_block_idx(var_env) = 1
        /\ DOMAIN get_block(var_env, 1).vars =
               {FuncParams[i].name[2] :
                    i \in {k \in 1..Len(FuncParams) : FuncParams[k].name # None}}
        /\ \A i \in 1..Len(FuncParams) :
               FuncParams[i].name # None =>
                   LET found == lookup_var(get_block(var_env, 1), FuncParams[i].name[2])
                       j == LastNamed(i)
                   IN  /\ found # None
                       /\ found[2].kind = "Param"
                       /\ found[2].idx = j - 1
                       /\ found[2].is_mut = FuncParams[j].is_mut

\* an environment constructed from fn f(a: Int, mut b: Int): the scope above
\* the root scope binds a (immutable) and b (mutable)
TwoParamsBound ==
    /\ Constructed
    /\ func = FuncAB
    /\ get_block(var_env, 1).vars =
           [n \in Names |-> IF n = "a" THEN Param(0, TyBase("Int"), FALSE)
                                       ELSE Param(1, TyBase("Int"), TRUE)]

\* ty contains, at some depth, a variable of string-length sort that the
\* table leaves unresolved
RECURSIVE HasStringVar(_, _)
HasStringVar(table, ty) ==
    CASE ty[1] = "TyVar" ->
            ty[2].sort[1] = "String" /\ ty[2].key \notin DOMAIN table
      [] ty[1] = "TyApp" -> HasStringVar(table, ty[2]) \/ HasStringVar(table, ty[3])
      [] ty[1] = "ConstTy" ->
            \/ /\ ty[2][1] = "TyVar"
               /\ ty[2][2].sort[1] = "String"
               /\ ty[2][2].key \notin DOMAIN table
            \/ ty[2][1] # "UnEvaluated" /\ HasStringVar(table, ty[2][3])
      [] OTHER -> FALSE

\* ty with every type variable of sort String(len), at any depth, replaced
\* by String<len>
RECURSIVE DefaultStrings(_)
DefaultStrings(ty) ==
    CASE ty[1] = "TyVar" ->
            IF ty[2].sort[1] = "String"
            THEN <<"TyApp", <<"TyBase", "String">>,
                   <<"ConstTy", <<"Evaluated", ty[2].sort[2], <<"TyBase", "u256">>>>>>>>
            ELSE ty
      [] ty[1] = "TyApp" -> <<"TyApp", DefaultStrings(ty[2]), DefaultStrings(ty[3])>>
      [] ty[1] = "ConstTy" ->
            IF ty[2][1] = "UnEvaluated" THEN ty
            ELSE <<"ConstTy", <<ty[2][1], ty[2][2], DefaultStrings(ty[2][3])>>>>
      [] OTHER -> ty

\* C11 -- defaulting: in the TypedBody finish returns, no expression type
\* and no pattern type contains, at any depth, a type variable of
\* string-length sort that the unification table leaves unresolved; the
\* type is the substituted type with each such variable replaced by the
\* string type applied to the literal length the variable carries.
Defaulting ==
    [][last_op' = "finish" =>
          LET table == last_args'[1]
              tb == typed_body'[2]
          IN  /\ \A e \in DOMAIN tb.expr_ty :
                     /\ ~HasStringVar(table, tb.expr_ty[e].ty)
                     /\ tb.expr_ty[e].ty =
                            DefaultStrings(UnificationTable_fold_ty(table, expr_ty[e].ty))
              /\ \A p \in DOMAIN tb.pat_ty :
                     /\ ~HasStringVar(table, tb.pat_ty[p])
                     /\ tb.pat_ty[p] =
                            DefaultStrings(UnificationTable_fold_ty(table, pat_ty[p]))]_vars

\* finish has replaced ?2, bound to ?1 and through it to the unresolved
\* string variable ?4, inside Option<?2> by String<5>, and ?1 inside the
\* array type likewise
StringVarDefaulted ==
    /\ last_op = "finish"
    /\ last_args = <<Table1>>
    /\ MapGet(pat_ty, "p1") = Some(OptionOfVar)
    /\ MapGet(expr_ty, "e1") = Some(ExprProp_new(ArrayOfStrings, TRUE))
    /\ typed_body[2].pat_ty["p1"] =
           TyApp(TyBase("Option"), TyApp(TyBase("String"),
               TyData_ConstTy(ConstTyData_Evaluated(5, TyBase("u256")))))
    /\ typed_body[2].expr_ty["e1"].ty[2][3] =
           TyApp(TyBase("String"),
               TyData_ConstTy(ConstTyData_Evaluated(5, TyBase("u256"))))

\* the value table tbl was last given for key k
Recorded(tbl, k) == hist.recorded[<<tbl, k>>]

\* C12 -- finish substitutes every recorded entry and nothing else: the
\* expression, pattern and callable tables of the TypedBody have the keys
\* the tables of the environment have when finish is called, which are the
\* nodes that were typed or registered; each key has one value, the fold of
\* the value recorded last for it: the folded type with the mutability and
\* the binding of the record, the folded generic arguments with the
\* function of the callable.
FinishSubstitutesAll ==
    [][last_op' = "finish" =>
          LET table == last_args'[1]
              tb == typed_body'[2]
          IN  /\ tb.body = Some(func.body[2])
              /\ DOMAIN tb.expr_ty = DOMAIN expr_ty
              /\ DOMAIN tb.expr_ty = hist.typed_exprs
              /\ \A e \in DOMAIN tb.expr_ty :
                     /\ tb.expr_ty[e].ty =
                            EnvFinisher_fold_ty(table, Recorded("expr_ty", e).ty)
                     /\ tb.expr_ty[e].is_mut = Recorded("expr_ty", e).is_mut
                     /\ tb.expr_ty[e].binding = Recorded("expr_ty", e).binding
              /\ DOMAIN tb.pat_ty = DOMAIN pat_ty
              /\ DOMAIN tb.pat_ty = hist.typed_pats
              /\ \A q \in DOMAIN tb.pat_ty :
                     tb.pat_ty[q] = EnvFinisher_fold_ty(table, Recorded("pat_ty", q))
              /\ DOMAIN tb.callables = DOMAIN callables
              /\ DOMAIN tb.callables = DOMAIN hist.reg_calls
              /\ \A e \in DOMAIN tb.callables :
                     LET c == Recorded("callables", e)
                     IN  /\ tb.callables[e].func_def = c.func_def
                         /\ Len(tb.callables[e].generic_args) = Len(c.generic_args)
                         /\ \A i \in 1..Len(c.generic_args) :
                                tb.callables[e].generic_args[i] =
                                    EnvFinisher_fold_ty(table, c.generic_args[i])]_vars

\* finish has folded an environment in which e1 was typed twice and e2
\* once, both patterns were typed and a callable was registered for e2; the
\* fold has changed the callable
AllEntriesFolded ==
    /\ last_op = "finish"
    /\ hist.overwrote
    /\ DOMAIN typed_body[2].expr_ty = {"e1", "e2"}
    /\ DOMAIN typed_body[2].pat_ty = {"p1", "p3"}
    /\ DOMAIN typed_body[2].callables = {"e2"}
    /\ typed_body[2].callables["e2"] # callables["e2"]

\* the type variables of ty that are not of string-length sort, from left
\* to right
RECURSIVE OtherVars(_)
OtherVars(ty) ==
    CASE ty[1] = "TyVar" -> IF ty[2].sort[1] = "String" THEN <<>> ELSE <<ty[2]>>
      [] ty[1] = "TyApp" -> OtherVars(ty[2]) \o OtherVars(ty[3])
      [] ty[1] = "ConstTy" ->
            CASE ty[2][1] = "UnEvaluated" -> <<>>
              [] ty[2][1] = "TyVar" -> OtherVars(ty[2][3]) \o <<ty[2][2]>>
              [] OTHER -> OtherVars(ty[2][3])
      [] OTHER -> <<>>

\* ty contains a type variable
RECURSIVE HasVar(_)
HasVar(ty) ==
    CASE ty[1] = "TyVar" -> TRUE
      [] ty[1] = "TyApp" -> HasVar(ty[2]) \/ HasVar(ty[3])
      [] ty[1] = "ConstTy" ->
            ty[2][1] = "TyVar" \/ (ty[2][1] # "UnEvaluated" /\ HasVar(ty[2][3]))
      [] OTHER -> FALSE

\* final is substituted but for the string-length defaulting
OnlyStringsDefaulted(substituted, final) ==
    /\ OtherVars(final) = OtherVars(substituted)
    /\ ~HasVar(substituted) => final = substituted

\* C13 -- no defaulting other than the string-length one: in every type
\* of the TypedBody, the type variables of the other sorts that the
\* unification table leaves unresolved are as they are in the substituted
\* type, and a substituted type without type variables is in the TypedBody
\* as the substitution has produced it.
NoOtherDefaulting ==
    [][last_op' = "finish" =>
          LET table == last_args'[1]
              tb == typed_body'[2]
          IN  /\ \A e \in DOMAIN expr_ty :
                     OnlyStringsDefaulted(UnificationTable_fold_ty(table, expr_ty[e].ty),
                                          tb.expr_ty[e].ty)
              /\ \A q \in DOMAIN pat_ty :
                     OnlyStringsDefaulted(UnificationTable_fold_ty(table, pat_ty[q]),
                                          tb.pat_ty[q])
              /\ \A e \in DOMAIN callables :
                     \A i \in 1..Len(callables[e].generic_args) :
                         OnlyStringsDefaulted(
                             UnificationTable_fold_ty(table, callables[e].generic_args[i]),
                             tb.callables[e].generic_args[i])]_vars

\* finish with a table that resolves nothing has left the general variable
\* ?2 in Option<?2> and the integral variable ?3 in the const-type of the
\* array type, and has returned Int as Int
OtherVarsKept ==
    /\ last_op = "finish"
    /\ last_args = <<Table0>>
    /\ MapGet(pat_ty, "p1") = Some(OptionOfVar)
    /\ typed_body[2].pat_ty["p1"] = OptionOfVar
    /\ MapGet(expr_ty, "e1") = Some(ExprProp_new(ArrayOfStrings, TRUE))
    /\ typed_body[2].expr_ty["e1"].ty[3] =
           TyData_ConstTy(ConstTyData_Evaluated(2, TyData_TyVar(Var3)))
    /\ MapGet(expr_ty, "e2") = Some(ExprProp_new(TyBase("Int"), FALSE))
    /\ typed_body[2].expr_ty["e2"].ty = TyBase("Int")

\* C14 -- anonymous-body assumptions: while the environment of an
\* anonymous body is in use, assumptions() is the empty predicate list,
\* whatever the scope stack holds; when assumptions() is what the constraint
\* collector answers, the body is a function body and the collector was
\* asked about the function the environment was constructed from.
AnonymousAssumptions ==
    status = "ok" =>
        LET body == func.body[2]
        IN  /\ body_kind(body) = "Anonymous" =>
                   assumptions(body, var_env) = PredicateListId_empty_list
            /\ assumptions(body, var_env) # PredicateListId_empty_list =>
                   /\ body_kind(body) = "FuncBody"
                   /\ assumptions(body, var_env) =
                          <<"constraints", <<"FuncDef", func.scope>>>>

\* the environment of an anonymous body with a block entered above the
\* scope that binds the parameters a and b; its first scope is that of a
\* function, and assumptions() is empty
AnonymousBodyInUse ==
    /\ status = "ok"
    /\ last_op = "enter_scope"
    /\ body_kind(func.body[2]) = "Anonymous"
    /\ Len(var_env) = 3
    /\ DOMAIN var_env[2].vars = {"a", "b"}
    /\ ScopeId_item(var_env[1].scope) = <<"Func", func.scope>>
    /\ assumptions(func.body[2], var_env) = PredicateListId_empty_list

\* the bindings lookup_binding_ty is asked about: parameters of two types,
\* and locals of the patterns p1 and p3, which type_pat types, and p2,
\* which it never does
LookedUpParams == {Param(0, TyBase("Bool"), TRUE), Param(1, TyInvalid, FALSE)}

LookedUpLocals == {Local(q, m) : q \in {"p1", "p2", "p3"}, m \in BOOLEAN}

\* C15 -- lookup_binding_ty: for a parameter binding it is the type the
\* binding carries, whatever type_pat has recorded; for a local binding it
\* is the type type_pat recorded last for the pattern of the binding, and
\* the Invalid marker when type_pat was never called for that pattern.
LookupBindingTy ==
    /\ \A b \in LookedUpParams : lookup_binding_ty(pat_ty, b) = b.ty
    /\ \A b \in LookedUpLocals :
           lookup_binding_ty(pat_ty, b) =
               IF b.pat \in hist.typed_pats THEN Recorded("pat_ty", b.pat) ELSE TyInvalid

\* type_pat has typed p1 a second time, with another type: the local of p1
\* has the new type, the local of p3, never typed, has the Invalid marker,
\* and the parameter has its own type
LocalRetyped ==
    /\ last_op = "type_pat"
    /\ hist.overwrote
    /\ last_args = <<"p1", OptionOfVar>>
    /\ lookup_binding_ty(pat_ty, Local("p1", FALSE)) = OptionOfVar
    /\ "p3" \notin hist.typed_pats
    /\ lookup_binding_ty(pat_ty, Local("p3", TRUE)) = TyInvalid
    /\ lookup_binding_ty(pat_ty, Param(0, TyBase("Bool"), TRUE)) = TyBase("Bool")

\* C16 -- the loop context is a stack: right after enter_loop(s),
\* current_loop() is s; after the leave_loop that matches an enter_loop it
\* is what it was before that enter_loop, so that at any time it is the
\* loop entered last among those not left yet; it is none exactly when no
\* entered loop is left to leave, as right after construction.
LoopContextLifo ==
    [][/\ last_op' = "enter_loop" =>
              current_loop(loop_stack') = Some(last_args'[1])
       /\ (last_op' = "leave_loop" /\ hist.loop_marks # <<>>) =>
              current_loop(loop_stack') = Last(hist.loop_marks)
       /\ current_loop(loop_stack') = None <=> hist'.loop_marks = <<>>
       /\ current_loop(loop_stack) = None <=> hist.loop_marks = <<>>]_vars

\* s1, s2 and a third loop were entered in this order and the third was
\* left: the current loop is s2 again
InnerLoopLeft ==
    /\ last_op = "leave_loop"
    /\ status = "ok"
    /\ hist.loop_marks = <<None, Some("s1")>>
    /\ current_loop(loop_stack) = Some("s2")

\* C17 -- construction from a function without a body returns the error
\* value: there is no environment, nothing has panicked, and no method
\* can be called afterwards.
NoBodyIsError ==
    func.body = None =>
        /\ new_with_func(func) = NoEnv
        /\ status = "err"
        /\ var_env = <<>>
        /\ last_op = "new_with_func"

\* new_with_func has returned the error value for a function that has two
\* parameters and no body
ConstructionFailed ==
    /\ last_op = "new_with_func"
    /\ last_args = <<func>>
    /\ func.body = None
    /\ func.params # None
    /\ Len(func.params[2]) = 2
    /\ status = "err"

\* the annotations whose type is not of kind *
IllKinded == {"Option"}

\* the type the binding of parameter p has to carry
DeclaredTy(p) ==
    IF p.ty[1] = "Present" /\ p.ty[2] \notin IllKinded
    THEN <<"TyBase", p.ty[2]>>
    ELSE <<"Invalid", "Other">>

\* func with the annotation of its parameter i replaced by t
WithAnnotation(i, t) ==
    [func EXCEPT !.params = Some([FuncParams EXCEPT ![i].ty = t])]

\* C18 -- a missing or ill-kinded annotation does not make construction
\* fail or panic and taints the parameter it belongs to only: the binding
\* of every named parameter carries the lowered declared type when that
\* type is of kind *, and the Invalid marker when it is not or when there
\* is no annotation; the bindings of the names of the other parameters are
\* what they are with any other annotation in the place of this one.
BadAnnotationTaintsOne ==
    (last_op = "new_with_func" /\ func.body # None /\ func.params # None) =>
        /\ status = "ok"
        /\ \A i \in 1..Len(FuncParams) :
               /\ FuncParams[i].name # None =>
                      LET found == lookup_var(get_block(var_env, 1), FuncParams[i].name[2])
                      IN  /\ found # None
                          /\ found[2].kind = "Param"
                          /\ found[2].ty = DeclaredTy(FuncParams[found[2].idx + 1])
                          /\ FuncParams[found[2].idx + 1].name = FuncParams[i].name
               /\ \A t \in HirTys, n \in Names :
                      FuncParams[i].name # Some(n) =>
                          lookup_var(get_block(var_env, 1), n) =
                              lookup_var(get_block(new_with_func(WithAnnotation(i, t)).var_env, 1), n)

\* fn f(a: Option, mut b: Int) has been constructed: the binding of a
\* carries the Invalid marker, that of b carries Int
OneParamTainted ==
    /\ Constructed
    /\ FuncParams = <<HirParam(Some("a"), Present("Option"), FALSE),
                      HirParam(Some("b"), Present("Int"), TRUE)>>
    /\ lookup_var(get_block(var_env, 1), "a") = Some(Param(0, TyInvalid, FALSE))
    /\ lookup_var(get_block(var_env, 1), "b") = Some(Param(1, TyBase("Int"), TRUE))

\* how often the shape that hook h is for occurs in the type ty, at any
\* depth: under applications and in the types const-types carry
RECURSIVE Occurrences(_, _)
Occurrences(h, ty) ==
    CASE ty[1] = "TyVar" -> IF h = "visit_var" THEN 1 ELSE 0
      [] ty[1] = "TyParam" -> IF h = "visit_param" THEN 1 ELSE 0
      [] ty[1] = "TyApp" -> Occurrences(h, ty[2]) + Occurrences(h, ty[3])
      [] ty[1] = "TyBase" ->
            IF \/ h = "visit_prim" /\ ty[2] \notin AdtNames \cup FuncNames
               \/ h = "visit_adt" /\ ty[2] \in AdtNames
               \/ h = "visit_func" /\ ty[2] \in FuncNames
            THEN 1 ELSE 0
      [] ty[1] = "ConstTy" ->
            Occurrences(h, ConstTyId_ty(ty[2]))
                + (IF \/ h = "visit_var" /\ ty[2][1] = "TyVar"
                      \/ h = "visit_const_param" /\ ty[2][1] = "TyParam"
                   THEN 1 ELSE 0)
      [] ty[1] = "Never" -> 0
      [] ty[1] = "Invalid" -> IF h = "visit_invalid" THEN 1 ELSE 0

\* the same for a visitable value: the sum over its elements
RECURSIVE OccurrencesIn(_, _)
OccurrencesIn(h, x) ==
    CASE x[1] = "TyId" -> Occurrences(h, x[2])
      [] x[1] \in {"Vec", "Slice"} ->
            IF x[2] = <<>> THEN 0
            ELSE OccurrencesIn(h, x[2][1]) + OccurrencesIn(h, <<x[1], Tail(x[2])>>)
      [] x[1] = "BTreeSet" ->
            IF x[2] = {} THEN 0
            ELSE LET ty == CHOOSE y \in x[2] : TRUE
                 IN  Occurrences(h, ty) + OccurrencesIn(h, <<"BTreeSet", x[2] \ {ty}>>)

\* how often hook h was called according to the record tr
Calls(tr, h) == Cardinality({i \in 1..Len(tr) : tr[i][1] = h})

\* C19 -- partial visitors traverse fully: a visitor that overrides leaf
\* hooks only has each of them called once for every occurrence of its
\* shape anywhere in the visited value, also under applications and in the
\* type a const-type carries, and no other hook of it is called.
PartialVisitorsTraverseFully ==
    last_op = "visit_with" =>
        /\ \A h \in last_args[1] : Calls(trace, h) = OccurrencesIn(h, visited)
        /\ \A i \in 1..Len(trace) : trace[i][1] \in last_args[1]

\* a visitor that overrides visit_param only has visited
\* Array<N : T, T>-like types in which T occurs twice, once as the type
\* the const parameter N carries: visit_param was called twice
ParamInConstTyVisited ==
    /\ last_op = "visit_with"
    /\ last_args = <<{"visit_param"}>>
    /\ visited = Visitable_TyId(
           TyApp(TyApp(TyBase("Array"), TyData_TyParam("T")),
                 TyData_ConstTy(ConstTyData_TyParam("N", TyData_TyParam("T")))))
    /\ trace = <<<<"visit_param", "T">>, <<"visit_param", "T">>>>

\* what visitor V records on the type ty
Visit(V, ty) == visit_ty(V, <<>>, ty)

\* the concatenation of what V records on each element of elems
RECURSIVE InOrder(_, _)
InOrder(V, elems) ==
    IF elems = <<>> THEN <<>>
    ELSE visit_with(V, <<>>, Head(elems)) \o InOrder(V, Tail(elems))

\* the types of set in ascending order of their ids, as visitable values
Ascending(set) ==
    LET ids == {TyId_ord(ty) : ty \in set}
        nth(k) == CHOOSE i \in ids : Cardinality({j \in ids : j < i}) = k - 1
    IN  [k \in 1..Cardinality(set) |-> <<"TyId", Interned[nth(k)]>>]

\* C20 -- the order of the default traversal: on an application, what is
\* recorded on the applied type comes before what is recorded on the
\* argument; on a const-type, what is recorded on the carried type comes
\* first, then the call of visit_var for a variable, of visit_const_param
\* for a const parameter, and nothing for an evaluated or unevaluated
\* const-type; on a vector or a slice the elements are visited from the
\* first to the last, on a BTreeSet in ascending order.
DefaultTraversalOrder ==
    last_op = "visit_with" =>
        LET V == last_args[1]
            x == visited[2]
        IN  /\ (visited[1] = "TyId" /\ x[1] = "TyApp") =>
                   trace = Visit(V, x[2]) \o Visit(V, x[3])
            /\ (visited[1] = "TyId" /\ x[1] = "ConstTy") =>
                   trace = Visit(V, ConstTyId_ty(x[2])) \o
                       ( CASE x[2][1] = "TyVar" /\ "visit_var" \in V ->
                                 << <<"visit_var", x[2][2]>> >>
                           [] x[2][1] = "TyParam" /\ "visit_const_param" \in V ->
                                 << <<"visit_const_param", <<x[2][2], x[2][3]>>>> >>
                           [] OTHER -> <<>> )
            /\ visited[1] \in {"Vec", "Slice"} => trace = InOrder(V, x)
            /\ visited[1] = "BTreeSet" => trace = InOrder(V, Ascending(x))

\* a visitor of every leaf has visited Array<?2, N : T>: the constructor,
\* then the element type, then the type the const parameter carries, then
\* the const parameter
AppThenConstTyVisited ==
    /\ last_op = "visit_with"
    /\ last_args = <<LeafHooks>>
    /\ visited = Visitable_TyId(
           TyApp(TyApp(TyBase("Array"), TyData_TyVar(Var2)),
                 TyData_ConstTy(ConstTyData_TyParam("N", TyData_TyParam("T")))))
    /\ trace = << <<"visit_prim", "Array">>, <<"visit_var", Var2>>,
                  <<"visit_param", "T">>,
                  <<"visit_const_param", <<"N", TyData_TyParam("T")>>>> >>

\* C21 -- within one scope the last write wins: after construction the
\* name of a parameter is bound to the last parameter declared with that
\* name, and no name of that scope is bound to an earlier one; after a
\* flush, a name that was staged is bound, in the scope on top, to the
\* staged binding, and the binding the scope had for that name (a
\* parameter, or a local of an earlier flush) is bound to no name of it.
LastBindingWins ==
    [][/\ Constructed =>
              \A i \in 1..Len(FuncParams) :
                  LET top == get_block(var_env, 1)
                      p == FuncParams[i]
                      q == FuncParams[LastNamed(i)]
                  IN  p.name # None =>
                          /\ lookup_var(top, p.name[2]) =
                                 Some(Param(LastNamed(i) - 1, DeclaredTy(q), q.is_mut))
                          /\ i # LastNamed(i) =>
                                 \A m \in DOMAIN top.vars : top.vars[m].idx # i - 1
       /\ (last_op' = "flush_pending_bindings" /\ status' = "ok") =>
              \A n \in DOMAIN pending_vars :
                  LET old == lookup_var(Last(var_env), n)
                      top == Last(var_env')
                  IN  /\ lookup_var(top, n) = Some(pending_vars[n])
                      /\ (old # None /\ old # Some(pending_vars[n])) =>
                             \A m \in DOMAIN top.vars : top.vars[m] # old[2]]_vars

\* in the environment of fn f(a: Int, mut a: Bool) a flush has written a
\* local `a` into the scope of the parameters: that scope binds `a` to the
\* local, no longer to the parameter
ParamOverwritten ==
    /\ func = FuncAA
    /\ last_op = "flush_pending_bindings"
    /\ status = "ok"
    /\ Len(var_env) = 2
    /\ lookup_var(get_block(var_env, 1), "a") = Some(Local("p2", TRUE))

\* C22 -- positional index: whenever the scope stack is not empty, the
\* scope at position i of it carries the index i, so current_block_idx() is
\* the depth minus one and get_block(current_block_idx()) is the scope on
\* top; right after construction the depth is 2.
PositionalIndex ==
    /\ var_env # <<>> =>
           /\ \A i \in BlockIdxs(var_env) : get_block(var_env, i).idx = i
           /\ current_block_idx(var_env) = Len(var_env) - 1
           /\ get_block(var_env, current_block_idx(var_env)) = Last(var_env)
           /\ scope(var_env) = get_block(var_env, current_block_idx(var_env)).scope
    /\ Constructed =>
           /\ Len(var_env) = 2
           /\ get_block(var_env, 0).scope = ScopeId_Func(func.scope)
           /\ get_block(var_env, 1).scope = ScopeId_Block(func.body[2], func.body_expr)
                  \/ expr_data(func.body_expr) # "Block"

\* a block was entered, left, and another one entered in its place: the
\* scope on top is at position 2 and carries the index 2
ScopeReentered ==
    /\ last_op = "enter_scope"
    /\ status = "ok"
    /\ last_args = <<"e1">>
    /\ Len(var_env) = 3
    /\ current_block_idx(var_env) = 2
    /\ get_block(var_env, 2).scope = ScopeId_Block(func.body[2], "e1")
    /\ FuncParams = <<HirParam(None, Absent, FALSE)>>

\* the indices of the parameters a scope binds
BoundIdxs(block) == {block.vars[n].idx : n \in DOMAIN block.vars}

\* C23 -- the index of a Param binding is the position of the parameter in
\* the whole declared list, unnamed parameters counted: every binding made
\* by construction sits under the name binding_name reads at its index, an
\* unnamed parameter has no binding but takes up an index, and the indices
\* of the bound parameters are distinct and grow in declaration order.
ParamIndexCountsUnnamed ==
    Constructed =>
        LET top == get_block(var_env, 1)
            Bound == {i \in 1..Len(FuncParams) :
                          FuncParams[i].name # None /\ i = LastNamed(i)}
        IN  /\ BoundIdxs(top) = {i - 1 : i \in Bound}
            /\ Cardinality(DOMAIN top.vars) = Cardinality(Bound)
            /\ \A n \in DOMAIN top.vars :
                   /\ top.vars[n].kind = "Param"
                   /\ binding_name(top.vars[n], FuncParams) = n
            /\ \A i \in 1..Len(FuncParams) :
                   FuncParams[i].name = None => (i - 1) \notin BoundIdxs(top)
            /\ \A i \in Bound, j \in Bound :
                   i < j => lookup_var(top, FuncParams[i].name[2])[2].idx <
                                lookup_var(top, FuncParams[j].name[2])[2].idx

\* fn f(_: Int, b: Int) has been constructed: b is bound at index 1 and
\* nothing is bound at index 0
UnnamedParamCounted ==
    /\ Constructed
    /\ FuncParams = <<HirParam(None, Present("Int"), FALSE),
                      HirParam(Some("b"), Present("Int"), FALSE)>>
    /\ get_block(var_env, 1).vars = [n \in {"b"} |-> Param(1, TyBase("Int"), FALSE)]
    /\ binding_name(Param(1, TyBase("Int"), FALSE), FuncParams) = "b"

\* C24 -- construction from a function that has a body but whose
\* parameter list is absent returns the error value: no environment comes
\* back, neither the root scope nor the scope of the body, and nothing has
\* panicked.
NoParamsIsError ==
    (func.body # None /\ func.params = None) =>
        /\ status = "err"
        /\ var_env = <<>>
        /\ pending_vars = EmptyMap
        /\ last_op = "new_with_func"
        /\ last_args = <<func>>

\* new_with_func has returned the error value for a function with a block
\* body and an absent parameter list
ConstructionFailedOnParams ==
    /\ last_op = "new_with_func"
    /\ func.body = Some("body0")
    /\ func.body_expr = "e0"
    /\ func.params = None
    /\ status = "err"
    /\ var_env = <<>>

\* C25 -- leave_loop with no loop entered does nothing and does not
\* abort: the environment stays usable, the loop stack stays empty,
\* current_loop() stays none and no other component changes.
LeaveLoopOnNoLoop ==
    [][(last_op' = "leave_loop" /\ loop_stack = <<>>) =>
           /\ status' = "ok"
           /\ loop_stack' = <<>>
           /\ current_loop(loop_stack') = None
           /\ UNCHANGED <<func, var_env, pending_vars, pat_ty, expr_ty, callables,
                          typed_body>>]_vars

\* leave_loop was called when every loop entered had been left already,
\* inside a block of the body
LoopLeftTwice ==
    /\ last_op = "leave_loop"
    /\ status = "ok"
    /\ hist.left_no_loop
    /\ loop_stack = <<>>
    /\ current_loop(loop_stack) = None
    /\ Len(var_env) = 3

\* the three result tables
ResultTables == <<pat_ty, expr_ty, callables>>

\* C26 -- frame conditions: entering and leaving a scope change neither the
\* loop stack nor the staged bindings nor a result table (leave_scope keeps
\* what is staged); entering and leaving a loop change the loop stack
\* only; type_expr, type_pat and register_callable change their own table
\* only; register_pending_binding changes the staged bindings only.
FrameConditions ==
    [][/\ last_op' \in {"enter_scope", "leave_scope"} =>
              UNCHANGED <<loop_stack, pending_vars, ResultTables>>
       /\ last_op' \in {"enter_loop", "leave_loop"} =>
              UNCHANGED <<var_env, pending_vars, ResultTables>>
       /\ last_op' = "type_expr" =>
              UNCHANGED <<var_env, pending_vars, loop_stack, pat_ty, callables>>
       /\ last_op' = "type_pat" =>
              UNCHANGED <<var_env, pending_vars, loop_stack, expr_ty, callables>>
       /\ last_op' = "register_callable" =>
              UNCHANGED <<var_env, pending_vars, loop_stack, pat_ty, expr_ty>>
       /\ last_op' = "register_pending_binding" =>
              UNCHANGED <<var_env, loop_stack, ResultTables>>]_vars

\* a scope was left inside a loop, with a binding staged and an entry in
\* each result table: all of them are still there
ScopeLeftWithAllInUse ==
    /\ last_op = "leave_scope"
    /\ status = "ok"
    /\ Len(var_env) = 2
    /\ loop_stack = <<"s1">>
    /\ pending_vars = MapInsert(EmptyMap, "a", Local("p1", FALSE))
    /\ DOMAIN expr_ty = {"e1"}
    /\ DOMAIN pat_ty = {"p1"}
    /\ DOMAIN callables = {"e1"}

\* C27 -- into_assignable, by type: on a Map it fails with cannot-move;
\* on a Base or a Contract it succeeds, the result is finally at Value, and
\* it differs from the attributes it was called on by a move to Value,
\* added when they were not at Value; on an Array, a Tuple, a String or
\* a Struct it returns the attributes as they were when they are finally
\* in Memory and fails with cannot-move when they are not.
AssignableByType ==
    last_op = "into_assignable" =>
        LET self == last_args[1]
            variant == self.typ[1]
        IN  /\ variant = "Map" => attributes = cannot_move
            /\ variant \in {"Base", "Contract"} =>
                   /\ attributes[1] = "Ok"
                   /\ final_location(attributes[2]) = Location_Value
                   /\ attributes[2] =
                          IF self.location = Location_Value THEN self
                          ELSE [self EXCEPT !.move_location = Some(Location_Value)]
            /\ variant \in {"Array", "Tuple", "String", "Struct"} =>
                   attributes = IF final_location(self) = Location_Memory
                                THEN Ok(self)
                                ELSE cannot_move

\* an array in storage was cloned to memory and then made assignable: the
\* attributes came back as they were
ClonedArrayAssignable ==
    /\ last_op = "into_assignable"
    /\ last_args = <<[typ |-> Type("Array", "u256"),
                      location |-> Location_Storage(Some(0)),
                      move_location |-> Some(Location_Memory)]>>
    /\ attributes = Ok(last_args[1])

\* the tokens the statement was parsed from, after the pattern
AfterPat == Tail(last_args[1])

\* the number of tokens at the head of toks that make an augmented operator
AugOpLen(toks) ==
    IF toks # <<>> /\ toks[1] \in AugAssignOps THEN 1
    ELSE IF Len(toks) >= 2 /\ toks[1] = toks[2] /\ toks[1] \in {"Lt", "Gt"} THEN 2
    ELSE 0

\* the tokens after the pattern and the augmented operator, if there is one
AfterOp == SubSeq(AfterPat, AugOpLen(AfterPat) + 1, Len(AfterPat))

====
